---- MODULE Spec2Model ----
(***************************************************************************)
(* Model of the observability layer of demo-fastapi:                       *)
(*   src/src/observability/__init__.py      get_provider / reset_provider  *)
(*   src/src/observability/noop_provider.py NoopProvider                   *)
(*   src/src/observability/sentry_provider.py SentryProvider               *)
(* Strings that the code normalises (lower/strip) are sequences of         *)
(* one-character strings, so that the normalisation is computed.           *)
(***************************************************************************)
EXTENDS Integers, Sequences, FiniteSets, TLC

VARIABLES
    environ,             \* os.environ: the variables the code reads
    sdk_installed,       \* whether `import sentry_sdk` succeeds in this process
    instances,           \* every provider object constructed so far, in order
    _provider_instance,  \* the module-level singleton slot (0 = None)
    lastCall,            \* what the last factory-level call did and returned
    epochReturns,        \* instances returned by get_provider since the last reset
    retired,             \* instances returned by get_provider before the last reset
    epochBase,           \* Len(instances) when the last reset happened
    resetPending,        \* a reset happened and no get_provider has run since
    slotWrites,          \* number of non-None writes of the slot
    pc,                  \* per thread: position inside get_provider
    thrRet,              \* per thread: value returned by its last get_provider
    prov,                \* the provider object whose methods are being called
    lastOp,              \* the last method call on prov: arguments and outcome
    wrapper,             \* the function last returned by trace_decorator(name)(f)
    sdkInits,            \* successful sentry_sdk.init() calls made for prov
    hist,                \* history of prov: SENTRY_DSN at construction, initialize() outcomes
    coro,                \* one call of a decorated function: the span and the function body
    hookCall,            \* the last call of the pre-send hook: event given, value returned
    ddPost,              \* the last POST /datadog-event: Datadog's answer and the outcome;
                         \* its field events: the last GET /datadog-events
    photo,               \* the last add_photo request: its progress and its outcome
    logCall,             \* the last call of a structured-logging helper and its outcome
    health,              \* the application's startup provider and the last GET /health
    dispatch,            \* the last _dispatch_detection_event call and what it did
    youtube,             \* the last YouTube summarization request and its outcome
    customError,         \* the last construction of a CustomError
    deletion,            \* the last delete_image request and its outcome
    sql                  \* the shared SQL Server connection and the calls using it

vars == <<environ, sdk_installed, instances, _provider_instance, lastCall,
          epochReturns, retired, epochBase, resetPending, slotWrites, pc, thrRet,
          prov, lastOp, wrapper, sdkInits, hist, coro, hookCall, ddPost, photo,
          logCall, health, dispatch, youtube, customError, deletion, sql>>

factoryVars == <<instances, _provider_instance, lastCall, epochReturns, retired,
                 epochBase, resetPending, slotWrites>>
threadVars == <<pc, thrRet>>
providerVars == <<prov, lastOp, wrapper, sdkInits, hist>>
handlerVars == <<health, dispatch, youtube, customError, deletion, sql>>
appVars == <<coro, hookCall, ddPost, photo, logCall, handlerVars>>
notCoro == <<hookCall, ddPost, photo, logCall, handlerVars>>
notHook == <<coro, ddPost, photo, logCall, handlerVars>>
notPost == <<coro, hookCall, photo, logCall, handlerVars>>
notPhoto == <<coro, hookCall, ddPost, logCall, handlerVars>>
notLog == <<coro, hookCall, ddPost, photo, handlerVars>>
telemetryVars == <<coro, hookCall, ddPost, photo, logCall>>
notHealth == <<telemetryVars, dispatch, youtube, customError, deletion, sql>>
notDispatch == <<telemetryVars, health, youtube, customError, deletion, sql>>
notYoutube == <<telemetryVars, health, dispatch, customError, deletion, sql>>
notCustomError == <<telemetryVars, health, dispatch, youtube, deletion, sql>>
notDeletion == <<telemetryVars, health, dispatch, youtube, customError, sql>>
notSql == <<telemetryVars, health, dispatch, youtube, customError, deletion>>

----------------------------------------------------------------------------
(* Bounds *)

MaxInstances == 3
NumThreads == 2

Threads == 1..NumThreads

None == 0

----------------------------------------------------------------------------
(* Python str.lower() and str.strip() on sequences of characters *)

UpperAlphabet == <<"A","B","C","D","E","F","G","H","I","J","K","L","M",
                   "N","O","P","Q","R","S","T","U","V","W","X","Y","Z">>
LowerAlphabet == <<"a","b","c","d","e","f","g","h","i","j","k","l","m",
                   "n","o","p","q","r","s","t","u","v","w","x","y","z">>

Whitespace == {" ", "\t", "\n", "\r"}

LowerChar(c) ==
    IF \E i \in 1..Len(UpperAlphabet) : UpperAlphabet[i] = c
    THEN LowerAlphabet[CHOOSE i \in 1..Len(UpperAlphabet) : UpperAlphabet[i] = c]
    ELSE c

Lower(s) == [i \in 1..Len(s) |-> LowerChar(s[i])]

RECURSIVE LStrip(_)
LStrip(s) ==
    IF s # <<>> /\ Head(s) \in Whitespace THEN LStrip(Tail(s)) ELSE s

RECURSIVE RStrip(_)
RStrip(s) ==
    IF s # <<>> /\ s[Len(s)] \in Whitespace
    THEN RStrip(SubSeq(s, 1, Len(s) - 1))
    ELSE s

Strip(s) == RStrip(LStrip(s))

----------------------------------------------------------------------------
(* os.environ and os.getenv *)

Unset == [set |-> FALSE, val |-> <<>>]
Val(s) == [set |-> TRUE, val |-> s]

Getenv(env, name, default) ==
    IF env[name].set THEN env[name].val ELSE default

s_datadog == <<"d","a","t","a","d","o","g">>
s_sentry == <<"s","e","n","t","r","y">>
s_disabled == <<"d","i","s","a","b","l","e","d">>
s_none == <<"n","o","n","e">>
s_noop == <<"n","o","o","p">>

\* Values OBSERVABILITY_PROVIDER takes in the model: the documented names,
\* case and whitespace variants of them, and unrecognised values.
ProviderEnvValues ==
    { Unset,
      Val(s_datadog), Val(s_sentry), Val(s_disabled), Val(s_none), Val(s_noop),
      Val(<<"S","e","n","t","r","y">>),
      Val(<<" ","S","E","N","T","R","Y","\n">>),
      Val(<<"N","o","O","p"," ">>),
      Val(<<"\t","D","i","s","a","b","l","e","d">>),
      Val(<<>>),
      Val(<<"n","e","w","r","e","l","i","c">>),
      Val(<<"s","e","n"," ","t","r","y">>) }

\* Values SENTRY_DSN takes in the model: absent, empty, blank, present.
DsnEnvValues ==
    { Unset, Val(<<>>), Val(<<" ","\t">>),
      Val(<<"h","t","t","p","s",":","/","/","k","@","o","/","1">>) }

----------------------------------------------------------------------------
(* The provider classes: construction, name, is_enabled *)

\* SentryProvider._check_configuration: a DSN that is non-empty after strip()
CheckConfigurationNoStrip(env) ==
    LET sentry_dsn == Getenv(env, "SENTRY_DSN", <<>>)
    IN  sentry_dsn # <<>>

CheckConfiguration(env) ==
    LET sentry_dsn == Strip(Getenv(env, "SENTRY_DSN", <<>>))
    IN  sentry_dsn # <<>>

\* SentryProvider.__init__
SentryProvider_init(env) ==
    [cls |-> "SentryProvider",
     _initialized |-> FALSE,
     _enabled |-> CheckConfiguration(env)]

\* NoopProvider.__init__: the object has no fields
NoopProvider_init == [cls |-> "NoopProvider"]

\* DatadogProvider.__init__ (the class is imported by the factory)
DatadogProvider_init == [cls |-> "DatadogProvider"]

\* The `name` property of each class
SentryName == "sentry"
NoopName == "noop"
DatadogName == "datadog"

Name(self) ==
    CASE self.cls = "SentryProvider" -> SentryName
      [] self.cls = "NoopProvider" -> NoopName
      [] self.cls = "DatadogProvider" -> DatadogName

\* SentryProvider.is_enabled
SentryIsEnabledConfigOnly(self) == self._enabled

SentryIsEnabled(self) == self._enabled /\ self._initialized

\* NoopProvider.is_enabled
NoopIsEnabledTrue(self) == TRUE

NoopIsEnabled(self) == FALSE

----------------------------------------------------------------------------
(* Python values passed to the provider methods *)

PNone == [ty |-> "NoneType"]
PStr(x) == [ty |-> "str", v |-> x]
PInt(n) == [ty |-> "int", v |-> n]
PBool(b) == [ty |-> "bool", v |-> b]
PTuple(xs) == [ty |-> "tuple", v |-> xs]
PList(xs) == [ty |-> "list", v |-> xs]
\* a dict, as the sequence of its (key, value) items in iteration order
PDict(items) == [ty |-> "dict", v |-> items]
\* an object whose __str__ raises
PBadStr == [ty |-> "object"]
\* the span object sentry_sdk.start_span() returns
PSpan == [ty |-> "Span"]

\* bool(x)
Truthy(x) ==
    CASE x.ty = "NoneType" -> FALSE
      [] x.ty = "str" -> x.v # ""
      [] x.ty = "int" -> x.v # 0
      [] x.ty = "bool" -> x.v
      [] x.ty \in {"tuple", "list", "dict"} -> x.v # <<>>
      [] OTHER -> TRUE

\* repr(x) for the scalars that occur inside tuples
ReprAtom(x) ==
    CASE x.ty = "str" -> "'" \o x.v \o "'"
      [] x.ty = "int" -> ToString(x.v)
      [] x.ty = "bool" -> (IF x.v THEN "True" ELSE "False")
      [] OTHER -> "None"

RECURSIVE JoinRepr(_)
JoinRepr(xs) ==
    IF xs = <<>> THEN ""
    ELSE IF Len(xs) = 1 THEN ReprAtom(xs[1])
    ELSE ReprAtom(xs[1]) \o ", " \o JoinRepr(Tail(xs))

\* str(x): the string, or the exception str() raises
PyStr(x) ==
    CASE x.ty = "str" -> [exc |-> "none", v |-> x]
      [] x.ty = "int" -> [exc |-> "none", v |-> PStr(ToString(x.v))]
      [] x.ty = "bool" -> [exc |-> "none", v |-> PStr(IF x.v THEN "True" ELSE "False")]
      [] x.ty = "NoneType" -> [exc |-> "none", v |-> PStr("None")]
      [] x.ty = "tuple" ->
            [exc |-> "none",
             v |-> PStr("(" \o JoinRepr(x.v) \o (IF Len(x.v) = 1 THEN "," ELSE "") \o ")")]
      [] OTHER -> [exc |-> "ValueError", v |-> PNone]

\* Exception classes raised in the model; all derive from Exception
ExceptionClasses ==
    {"ImportError", "AttributeError", "TypeError", "ValueError", "KeyError",
     "BadDsn", "SdkError"}

\* One step of a method body: a vendor SDK call, or a raise
SdkCall(fn, a, b) == [k |-> "call", fn |-> fn, a |-> a, b |-> b]
Raise(exc) == [k |-> "raise", exc |-> exc]

\* Runs the steps in order. The failAt-th SDK call raises SdkError (0: none
\* fails). Yields the SDK calls attempted and the exception that ended the run.
RECURSIVE RunSteps(_, _, _)
RunSteps(steps, failAt, made) ==
    IF steps = <<>> THEN [sdk |-> made, exc |-> "none"]
    ELSE LET st == Head(steps)
         IN  IF st.k = "raise" THEN [sdk |-> made, exc |-> st.exc]
             ELSE IF Len(made) + 1 = failAt
                  THEN [sdk |-> Append(made, st), exc |-> "SdkError"]
                  ELSE RunSteps(Tail(steps), failAt, Append(made, st))

\* `import sentry_sdk` inside a method body
ImportSdk(installed) == IF installed THEN <<>> ELSE <<Raise("ImportError")>>

\* What a method call did: the object afterwards, the exception that reached
\* the caller ("none" if none), the value returned (or yielded), the vendor
\* SDK calls attempted, and whether an error was logged.
Outcome(self, raised, ret, sdk, logged) ==
    [self |-> self, raised |-> raised, ret |-> ret, sdk |-> sdk, logged |-> logged]

----------------------------------------------------------------------------
(* NoopProvider *)

NoopInitialize(self) == Outcome(self, "none", PNone, <<>>, FALSE)

\* trace_decorator(name)(f) is f
NoopTraceDecorator(self) == [raised |-> "none", wrapper |-> "identity"]

\* with trace_context(name): block
NoopTraceContext(self, block) == Outcome(self, block.exc, PNone, <<>>, FALSE)

NoopRecordError(self, args) == Outcome(self, "none", PNone, <<>>, FALSE)

NoopRecordEvent(self, args) == Outcome(self, "none", PNone, <<>>, FALSE)

NoopSetUserContext(self, args) == Outcome(self, "none", PNone, <<>>, FALSE)

NoopAddTags(self, args) == Outcome(self, "none", PNone, <<>>, FALSE)

----------------------------------------------------------------------------
(* SentryProvider.initialize *)

\* line 58: `if self._initialized`
AlreadyInitializedNever(self) == FALSE

AlreadyInitialized(self) == self._initialized

\* lines 140-146: `except ImportError` / `except Exception`
InitializeCatchesImportOnly(exc) == exc = "ImportError"

InitializeCatches(exc) == exc \in ExceptionClasses

\* The exception class of an outcome of sentry_sdk.init
InitExc(o) == IF o = "TypeError_enable_logs" THEN "TypeError" ELSE o

\* lines 66-138, the try body. inp: rate_ok (the float() conversions succeed),
\* enable_logs (SENTRY_ENABLE_LOGS), init1 / init2 (what the first call of
\* sentry_sdk.init and the retry without enable_logs do).
InitializeBody(installed, inp) ==
    LET first == [k |-> "call", fn |-> "init", a |-> PBool(inp.enable_logs), b |-> PNone]
        retry == [k |-> "call", fn |-> "init", a |-> PBool(FALSE), b |-> PNone]
    IN  IF ~installed THEN [sdk |-> <<>>, exc |-> "ImportError"]
        ELSE IF ~inp.rate_ok THEN [sdk |-> <<>>, exc |-> "ValueError"]
        ELSE IF inp.init1 = "ok" THEN [sdk |-> <<first>>, exc |-> "none"]
        ELSE IF inp.init1 = "TypeError_enable_logs"
             THEN [sdk |-> <<first, retry>>,
                   exc |-> IF inp.init2 = "ok" THEN "none" ELSE InitExc(inp.init2)]
        ELSE [sdk |-> <<first>>, exc |-> InitExc(inp.init1)]

SentryInitialize(self, installed, inp) ==
    IF AlreadyInitialized(self) THEN Outcome(self, "none", PNone, <<>>, FALSE)
    ELSE IF ~self._enabled THEN Outcome(self, "none", PNone, <<>>, FALSE)
    ELSE LET r == InitializeBody(installed, inp)
         IN  IF r.exc = "none"
             THEN Outcome([self EXCEPT !._initialized = TRUE], "none", PNone, r.sdk, FALSE)
             ELSE IF InitializeCatches(r.exc)
             THEN Outcome([self EXCEPT !._enabled = FALSE], "none", PNone, r.sdk, TRUE)
             ELSE Outcome(self, r.exc, PNone, r.sdk, FALSE)

InitializeInputs ==
    { i \in [rate_ok : BOOLEAN, enable_logs : BOOLEAN,
             init1 : {"ok", "TypeError_enable_logs", "TypeError", "BadDsn"},
             init2 : {"ok", "BadDsn"}] :
        /\ (i.init1 = "TypeError_enable_logs" => i.enable_logs)
        /\ (i.init1 # "TypeError_enable_logs" => i.init2 = "ok")
        /\ (~i.rate_ok => i.init1 = "ok") }

----------------------------------------------------------------------------
(* SentryProvider.trace_decorator / trace_context *)

\* lines 179-192: the decorator returned for f, or the exception raised
SentryTraceDecorator(self, installed) ==
    IF ~self._enabled THEN [raised |-> "none", wrapper |-> "identity"]
    ELSE IF ~installed THEN [raised |-> "ImportError", wrapper |-> "none"]
    ELSE [raised |-> "none", wrapper |-> "span"]

\* The decorated function called: lines 188-190 for the tracing wrapper, f
\* itself for the pass-through. f: the value it returns / the exception it raises.
InvokeWrapper(self, w, f) ==
    IF w = "identity"
    THEN Outcome(self, f.exc, f.ret, <<>>, FALSE)
    ELSE Outcome(self, f.exc, f.ret,
                 <<SdkCall("start_span", PStr("function"), PStr("name")),
                   SdkCall("span.__exit__", PNone, PNone)>>, FALSE)

\* lines 212-221: `with provider.trace_context(name): block`; ret is the value
\* yielded to the block
SentryTraceContext(self, installed, block) ==
    IF ~self._enabled THEN Outcome(self, block.exc, PNone, <<>>, FALSE)
    ELSE IF ~installed THEN Outcome(self, "ImportError", PNone, <<>>, FALSE)
    ELSE Outcome(self, block.exc, PSpan,
                 <<SdkCall("start_span", PStr("function"), PStr("name")),
                   SdkCall("span.__exit__", PNone, PNone)>>, FALSE)

\* What the wrapped function or block does
Behaviours ==
    { [exc |-> "none", ret |-> PInt(7)], [exc |-> "none", ret |-> PNone],
      [exc |-> "KeyError", ret |-> PNone] }

----------------------------------------------------------------------------
(* SentryProvider.record_error / record_event / set_user_context / add_tags *)

RECURSIVE Flatten(_)
Flatten(seqs) == IF seqs = <<>> THEN <<>> ELSE Head(seqs) \o Flatten(Tail(seqs))

\* record_error lines 252-256, one (key, value) item of tags.items()
TagItemSteps(key, value) ==
    IF key.ty = "tuple" /\ Len(key.v) = 2
    THEN LET sv == PyStr(key.v[2])
         IN  IF sv.exc # "none" THEN <<Raise(sv.exc)>>
             ELSE <<SdkCall("set_tag", key.v[1], sv.v)>>
    ELSE LET sk == PyStr(key)
             sv == PyStr(value)
         IN  IF sk.exc # "none" THEN <<Raise(sk.exc)>>
             ELSE IF sv.exc # "none" THEN <<Raise(sv.exc)>>
             ELSE <<SdkCall("set_tag", sk.v, sv.v)>>

\* record_error lines 250-256
TagSteps(tags) ==
    IF ~Truthy(tags) THEN <<>>
    ELSE IF tags.ty # "dict" THEN <<Raise("AttributeError")>>
    ELSE Flatten([i \in 1..Len(tags.v) |-> TagItemSteps(tags.v[i][1], tags.v[i][2])])

\* record_error lines 243-272, the try body
RecordErrorSteps(installed, args) ==
    ImportSdk(installed)
    \o (IF Truthy(args.error_type)
        THEN <<SdkCall("set_tag", PStr("error_type"), args.error_type)>> ELSE <<>>)
    \o TagSteps(args.tags)
    \o (IF Truthy(args.context)
        THEN <<SdkCall("set_context", PStr("additional_context"), args.context)>> ELSE <<>>)
    \o <<SdkCall("set_tag", PStr("service"), PStr("fastapi-app")),
         SdkCall("set_tag", PStr("environment"), PStr("dev")),
         SdkCall("set_tag", PStr("version"), PStr("1.0")),
         SdkCall("capture_exception", PStr("exception"), PNone)>>

\* line 276: `except Exception`
RecordErrorCatchesSdkOnly(exc) == exc = "SdkError"

RecordErrorCatches(exc) == exc \in ExceptionClasses

\* A guarded method body: the steps run inside try, `catches` is the except clause
Guarded(self, steps, failAt, catches) ==
    LET r == RunSteps(steps, failAt, <<>>)
    IN  IF r.exc = "none" THEN Outcome(self, "none", PNone, r.sdk, FALSE)
        ELSE IF catches THEN Outcome(self, "none", PNone, r.sdk, TRUE)
        ELSE Outcome(self, r.exc, PNone, r.sdk, FALSE)

SentryRecordError(self, installed, args, failAt) ==
    IF ~self._enabled THEN Outcome(self, "none", PNone, <<>>, FALSE)
    ELSE LET steps == RecordErrorSteps(installed, args)
         IN  Guarded(self, steps, failAt,
                     RecordErrorCatches(RunSteps(steps, failAt, <<>>).exc))

\* record_event lines 307-313: level_map.get(alert_type, "info")
LevelMapVerbatim(alert_type) ==
    IF alert_type.ty = "str" THEN alert_type.v ELSE "info"

LevelMap(alert_type) ==
    IF alert_type = PStr("warning") THEN "warning"
    ELSE IF alert_type = PStr("error") THEN "error"
    ELSE "info"

\* record_event lines 304-334, the try body
RecordEventSteps(installed, args) ==
    ImportSdk(installed)
    \o (IF args.alert_type.ty \in {"list", "dict"}
        THEN <<Raise("TypeError")>>
        ELSE <<SdkCall("add_breadcrumb", PStr(LevelMap(args.alert_type)),
                       IF Truthy(args.tags) THEN args.tags ELSE PNone)>>)
    \o (IF args.alert_type = PStr("error")
        THEN <<SdkCall("capture_message", PStr("error"),
                       IF Truthy(args.tags) THEN args.tags ELSE PNone)>>
        ELSE <<>>)

\* line 338: `except Exception`
RecordEventCatches(exc) == exc \in ExceptionClasses

SentryRecordEvent(self, installed, args, failAt) ==
    IF ~self._enabled THEN Outcome(self, "none", PNone, <<>>, FALSE)
    ELSE LET steps == RecordEventSteps(installed, args)
         IN  Guarded(self, steps, failAt,
                     RecordEventCatches(RunSteps(steps, failAt, <<>>).exc))

\* set_user_context lines 353-360, the try body
SetUserContextSteps(installed, args) ==
    ImportSdk(installed) \o <<SdkCall("set_user", args.user_id, args.kwargs)>>

\* line 364: `except Exception`
SetUserContextCatches(exc) == exc \in ExceptionClasses

SentrySetUserContext(self, installed, args, failAt) ==
    IF ~self._enabled THEN Outcome(self, "none", PNone, <<>>, FALSE)
    ELSE LET steps == SetUserContextSteps(installed, args)
         IN  Guarded(self, steps, failAt,
                     SetUserContextCatches(RunSteps(steps, failAt, <<>>).exc))

\* add_tags line 380-381, one item
AddTagItemSteps(key, value) ==
    LET sk == PyStr(key)
        sv == PyStr(value)
    IN  IF sk.exc # "none" THEN <<Raise(sk.exc)>>
        ELSE IF sv.exc # "none" THEN <<Raise(sv.exc)>>
        ELSE <<SdkCall("set_tag", sk.v, sv.v)>>

\* add_tags lines 378-383, the try body: tags.items() with no check of tags
AddTagsSteps(installed, args) ==
    ImportSdk(installed)
    \o (IF args.tags.ty # "dict" THEN <<Raise("AttributeError")>>
        ELSE Flatten([i \in 1..Len(args.tags.v) |->
                         AddTagItemSteps(args.tags.v[i][1], args.tags.v[i][2])]))

\* line 385: `except Exception`
AddTagsCatchesSdkOnly(exc) == exc = "SdkError"

AddTagsCatches(exc) == exc \in ExceptionClasses

SentryAddTags(self, installed, args, failAt) ==
    IF ~self._enabled THEN Outcome(self, "none", PNone, <<>>, FALSE)
    ELSE LET steps == AddTagsSteps(installed, args)
         IN  Guarded(self, steps, failAt,
                     AddTagsCatches(RunSteps(steps, failAt, <<>>).exc))

\* Number of SDK calls among the steps: each of them may be the one that fails
NumCalls(steps) == Cardinality({i \in 1..Len(steps) : steps[i].k = "call"})

----------------------------------------------------------------------------
(* Arguments the callers pass *)

TagsArgs ==
    { PNone,
      PDict(<<>>),
      PDict(<< <<PStr("k"), PStr("v")>> >>),
      PDict(<< <<PInt(1), PInt(2)>> >>),
      PDict(<< <<PTuple(<<PInt(1), PInt(2)>>), PStr("v")>> >>),
      PDict(<< <<PTuple(<<PStr("a"), PInt(2), PNone>>), PBool(TRUE)>>,
               <<PStr("k"), PBadStr>> >>),
      PList(<<PStr("a:b")>>) }

\* record_error is called with all optional arguments or with tags only
RecordErrorArgs ==
    { [error_type |-> PStr("demo"), tags |-> t,
       context |-> PDict(<< <<PStr("filename"), PNone>> >>)] : t \in TagsArgs }
    \cup { [error_type |-> PNone, tags |-> t, context |-> PNone] : t \in TagsArgs }

RecordEventArgs ==
    [alert_type : {PStr("info"), PStr("warning"), PStr("error"), PStr("success"),
                   PStr("critical"), PList(<<>>)},
     tags : {PNone, PList(<<PStr("a:b")>>)}]

SetUserContextArgs ==
    [user_id : {PStr("u1"), PNone},
     kwargs : {PDict(<<>>), PDict(<< <<PStr("email"), PStr("e")>> >>)}]

AddTagsArgs == [tags : TagsArgs]

----------------------------------------------------------------------------
(* get_provider / reset_provider *)

\* get_provider, lines 73-94: which class the configuration selects, and
\* whether the "Unknown OBSERVABILITY_PROVIDER" warning is logged.
ResolveProviderLowerOnly(env) ==
    LET provider_name == Lower(Getenv(env, "OBSERVABILITY_PROVIDER", s_datadog))
    IN  IF provider_name = s_datadog THEN [cls |-> "DatadogProvider", warned |-> FALSE]
        ELSE IF provider_name = s_sentry THEN [cls |-> "SentryProvider", warned |-> FALSE]
        ELSE IF provider_name \in {s_disabled, s_none, s_noop}
             THEN [cls |-> "NoopProvider", warned |-> FALSE]
        ELSE [cls |-> "DatadogProvider", warned |-> TRUE]

ResolveProvider(env) ==
    LET provider_name == Strip(Lower(Getenv(env, "OBSERVABILITY_PROVIDER", s_datadog)))
    IN  IF provider_name = s_datadog THEN [cls |-> "DatadogProvider", warned |-> FALSE]
        ELSE IF provider_name = s_sentry THEN [cls |-> "SentryProvider", warned |-> FALSE]
        ELSE IF provider_name \in {s_disabled, s_none, s_noop}
             THEN [cls |-> "NoopProvider", warned |-> FALSE]
        ELSE [cls |-> "DatadogProvider", warned |-> TRUE]

Construct(cls, env) ==
    CASE cls = "SentryProvider" -> SentryProvider_init(env)
      [] cls = "NoopProvider" -> NoopProvider_init
      [] cls = "DatadogProvider" -> DatadogProvider_init

\* get_provider, lines 69-71: the cached instance is returned when there is one
CachedAvailableNever(slot) == FALSE

CachedAvailable(slot) == slot # None

\* reset_provider, line 112: the value stored into the slot
ResetValueKeep(slot) == slot

ResetValue(slot) == None

Call(op, ret, constructed, warned) ==
    [op |-> op, ret |-> ret, constructed |-> constructed, warned |-> warned]

\* get_provider() run to completion by one caller
GetProvider ==
    /\ IF CachedAvailable(_provider_instance)
       THEN /\ lastCall' = Call("get_provider", _provider_instance, FALSE, FALSE)
            /\ epochReturns' = epochReturns \cup {_provider_instance}
            /\ UNCHANGED <<instances, _provider_instance, slotWrites>>
       ELSE /\ Len(instances) < MaxInstances
            /\ LET r == ResolveProvider(environ)
                   new == Len(instances) + 1
               IN  /\ instances' = Append(instances, Construct(r.cls, environ))
                   /\ _provider_instance' = new
                   /\ lastCall' = Call("get_provider", new, TRUE, r.warned)
                   /\ epochReturns' = epochReturns \cup {new}
            /\ slotWrites' = slotWrites + 1
    /\ resetPending' = FALSE
    /\ UNCHANGED <<environ, sdk_installed, retired, epochBase, threadVars, providerVars, appVars>>

\* reset_provider()
ResetProvider ==
    /\ _provider_instance' = ResetValue(_provider_instance)
    /\ lastCall' = Call("reset_provider", None, FALSE, FALSE)
    /\ retired' = retired \cup epochReturns
    /\ epochReturns' = {}
    /\ epochBase' = Len(instances)
    /\ resetPending' = TRUE
    /\ UNCHANGED <<environ, sdk_installed, instances, slotWrites, threadVars,
                   providerVars, appVars>>

\* The environment changes between calls (os.environ / monkeypatch.setenv)
SetProviderEnv ==
    \E v \in ProviderEnvValues :
        /\ environ' = [environ EXCEPT !["OBSERVABILITY_PROVIDER"] = v]
        /\ lastCall' = Call("setenv", None, FALSE, FALSE)
        /\ UNCHANGED <<sdk_installed, instances, _provider_instance, epochReturns,
                       retired, epochBase, resetPending, slotWrites, threadVars,
                       providerVars, appVars>>

SetDsnEnv ==
    \E v \in DsnEnvValues :
        /\ environ' = [environ EXCEPT !["SENTRY_DSN"] = v]
        /\ lastCall' = Call("setenv", None, FALSE, FALSE)
        /\ UNCHANGED <<sdk_installed, instances, _provider_instance, epochReturns,
                       retired, epochBase, resetPending, slotWrites, threadVars,
                       providerVars, appVars>>

\* No provider object yet
NoProvider == [cls |-> "NoneType"]

\* The record kept of a method call
\* (fail: which SDK call was made to fail, 0 for none)
Op(op, args, fail, o) ==
    [op |-> op, args |-> args, fail |-> fail, raised |-> o.raised, ret |-> o.ret,
     sdk |-> o.sdk, logged |-> o.logged]

NoWrapper == [kind |-> "none", enabledAtDecoration |-> FALSE]

\* No decorated function has been called
NoCall ==
    [fn |-> "none", traced |-> FALSE, enabled |-> FALSE, pos |-> "none",
     span |-> "none", body |-> "none", awaits |-> 0]

\* The pre-send hook has not been called
NoHookCall == [called |-> FALSE]

\* No event has been posted
NoPost == [called |-> FALSE, events |-> [called |-> FALSE]]

\* No add_photo request has been made
NoPhoto ==
    [called |-> FALSE, pc |-> "none", provider |-> "noop", is_enabled |-> FALSE,
     backend |-> "mongo", stored |-> FALSE, database_result |-> "none",
     response |-> {}, type |-> "none", raised |-> "none",
     issues |-> {}, telemetryFailed |-> FALSE]

\* The application has not started
NoHealth ==
    [started |-> FALSE, provider |-> NoProvider, singleton |-> NoProvider,
     asked |-> FALSE, response |-> [status |-> "none"]]

\* _dispatch_detection_event has not been called
NoDispatch ==
    [called |-> FALSE, provider_name |-> "noop", is_enabled |-> FALSE,
     detection_type |-> "bug", faults |-> <<>>, calls |-> <<>>, logged |-> FALSE,
     exc |-> "none", ret |-> <<>>]

\* No YouTube request has been made
NoYoutube == [called |-> FALSE, pc |-> "none"]

\* No CustomError has been constructed
NoCustomError == [called |-> FALSE]

\* No delete_image request has been made
NoDeletion == [called |-> FALSE]

\* Connections that can be open at a time in the model
MaxConnections == 2

\* Calls of execute_non_query_async one thread makes
MaxStatements == 2

\* The worker threads of the pool
SqlThreads == 1..NumThreads

\* The statements: the n-th call of thread t
Statements == SqlThreads \X (1..MaxStatements)

\* A worker between two calls
IdleWorker == [pc |-> "idle", connection |-> None, stmt |-> <<>>, calls |-> 0]

\* src/sqlserver.py after `conn = None` at line 59, before the module has
\* tried to connect
NoSql ==
    [called |-> FALSE, conn |-> None, live |-> {},
     pending |-> [c \in 1..MaxConnections |-> {}],
     committed |-> {}, returned |-> {}, failed |-> {},
     thr |-> [t \in SqlThreads |-> IdleWorker]]

\* No logging helper has been called
NoLogCall ==
    [called |-> FALSE, helper |-> "none", args |-> <<>>, logger |-> FALSE,
     raised |-> "none", emitted |-> <<>>]

\* The history of an object constructed under env
NewHist(env) == [dsn |-> env["SENTRY_DSN"], initOk |-> FALSE, initFailed |-> FALSE]

InitCommon ==
    /\ environ = [OBSERVABILITY_PROVIDER |-> Unset, SENTRY_DSN |-> Unset,
                  DD_SERVICE |-> Unset]
    /\ prov = NoProvider
    /\ lastOp = Op("import", PNone, 0, Outcome(NoProvider, "none", PNone, <<>>, FALSE))
    /\ wrapper = NoWrapper
    /\ sdkInits = 0
    /\ hist = NewHist(environ)
    /\ coro = NoCall
    /\ hookCall = NoHookCall
    /\ ddPost = NoPost
    /\ photo = NoPhoto
    /\ logCall = NoLogCall
    /\ health = NoHealth
    /\ dispatch = NoDispatch
    /\ youtube = NoYoutube
    /\ customError = NoCustomError
    /\ deletion = NoDeletion
    /\ sql = NoSql
    /\ instances = <<>>
    /\ _provider_instance = None
    /\ lastCall = Call("import", None, FALSE, FALSE)
    /\ epochReturns = {}
    /\ retired = {}
    /\ epochBase = 0
    /\ resetPending = FALSE
    /\ slotWrites = 0
    /\ pc = [t \in Threads |-> "idle"]
    /\ thrRet = [t \in Threads |-> None]

Init == InitCommon /\ sdk_installed = TRUE

Next ==
    \/ GetProvider
    \/ ResetProvider
    \/ SetProviderEnv
    \/ SetDsnEnv

Spec == Init /\ [][Next]_vars

----------------------------------------------------------------------------
(* get_provider called from several threads: the function holds no lock, so *)
(* a thread can be preempted between the check of the slot (line 70), the   *)
(* construction and store (lines 74-94) and the final read (line 101).      *)

\* lines 67-71: read the slot; return it when set
T_Check(t) ==
    /\ pc[t] = "idle"
    /\ IF CachedAvailable(_provider_instance)
       THEN /\ thrRet' = [thrRet EXCEPT ![t] = _provider_instance]
            /\ epochReturns' = epochReturns \cup {_provider_instance}
            /\ pc' = pc
       ELSE /\ pc' = [pc EXCEPT ![t] = "create"]
            /\ UNCHANGED <<thrRet, epochReturns>>
    /\ UNCHANGED <<environ, sdk_installed, instances, _provider_instance, lastCall,
                   retired, epochBase, resetPending, slotWrites, providerVars, appVars>>

\* lines 73-94: read the configuration, construct, store into the slot
T_Create(t) ==
    /\ pc[t] = "create"
    /\ LET r == ResolveProvider(environ)
           new == Len(instances) + 1
       IN  /\ instances' = Append(instances, Construct(r.cls, environ))
           /\ _provider_instance' = new
    /\ slotWrites' = slotWrites + 1
    /\ pc' = [pc EXCEPT ![t] = "return"]
    /\ UNCHANGED <<environ, sdk_installed, lastCall, epochReturns, retired,
                   epochBase, resetPending, thrRet, providerVars, appVars>>

\* lines 96-101: read the slot again and return what it holds
T_Return(t) ==
    /\ pc[t] = "return"
    /\ thrRet' = [thrRet EXCEPT ![t] = _provider_instance]
    /\ epochReturns' = epochReturns \cup {_provider_instance}
    /\ pc' = [pc EXCEPT ![t] = "idle"]
    /\ UNCHANGED <<environ, sdk_installed, instances, _provider_instance, lastCall,
                   retired, epochBase, resetPending, slotWrites, providerVars, appVars>>

NextThreads ==
    \/ \E t \in Threads : T_Check(t)
    \/ \E t \in Threads : T_Create(t)
    \/ \E t \in Threads : T_Return(t)
    \/ SetProviderEnv
    \/ SetDsnEnv

SpecThreads == Init /\ [][NextThreads]_vars

----------------------------------------------------------------------------
(* The methods of one provider object, called in any order *)

IsEnabled(self) ==
    CASE self.cls = "SentryProvider" -> SentryIsEnabled(self)
      [] self.cls = "NoopProvider" -> NoopIsEnabled(self)

Constructed == prov.cls \in {"SentryProvider", "NoopProvider"}

IsSentry == prov.cls = "SentryProvider"

\* SentryProvider() / NoopProvider()
P_New ==
    \E cls \in {"SentryProvider", "NoopProvider"} :
        /\ prov' = Construct(cls, environ)
        /\ lastOp' = Op("__init__", PNone, 0,
                        Outcome(Construct(cls, environ), "none", PNone, <<>>, FALSE))
        /\ wrapper' = NoWrapper
        /\ sdkInits' = 0
        /\ hist' = NewHist(environ)
        /\ UNCHANGED <<environ, sdk_installed, factoryVars, threadVars, appVars>>

\* SENTRY_DSN changes in the environment
P_SetDsn ==
    \E v \in DsnEnvValues :
        /\ environ' = [environ EXCEPT !["SENTRY_DSN"] = v]
        /\ UNCHANGED <<sdk_installed, factoryVars, threadVars, providerVars, appVars>>

\* Whether an initialize() outcome is a completed sentry_sdk.init()
InitSucceeded(o) == o.sdk # <<>> /\ ~o.logged /\ o.raised = "none"

\* Whether an initialize() outcome is a failure of the import or of the SDK
\* setup: the exception was logged by a handler, or reached the caller
InitFailed(o) == o.logged \/ o.raised # "none"

MaxSdkInits == 2

P_Initialize ==
    /\ Constructed
    /\ sdkInits < MaxSdkInits
    /\ \E inp \in InitializeInputs :
          LET o == IF IsSentry THEN SentryInitialize(prov, sdk_installed, inp)
                   ELSE NoopInitialize(prov)
          IN  /\ prov' = o.self
              /\ lastOp' = Op("initialize", inp, 0, o)
              /\ sdkInits' = IF InitSucceeded(o) THEN sdkInits + 1 ELSE sdkInits
              /\ hist' = [hist EXCEPT !.initOk = @ \/ InitSucceeded(o),
                                      !.initFailed = @ \/ InitFailed(o)]
    /\ UNCHANGED <<environ, sdk_installed, wrapper, factoryVars, threadVars, appVars>>

\* wrapped = provider.trace_decorator(name)(f)
P_Decorate ==
    /\ Constructed
    /\ LET d == IF IsSentry THEN SentryTraceDecorator(prov, sdk_installed)
                ELSE NoopTraceDecorator(prov)
       IN  /\ wrapper' = IF d.raised = "none"
                         THEN [kind |-> d.wrapper, enabledAtDecoration |-> IsEnabled(prov)]
                         ELSE wrapper
           /\ lastOp' = Op("trace_decorator", PNone, 0,
                           Outcome(prov, d.raised, PNone, <<>>, FALSE))
    /\ UNCHANGED <<environ, sdk_installed, prov, sdkInits, hist, factoryVars, threadVars, appVars>>

\* wrapped(...)
P_Invoke ==
    /\ Constructed
    /\ wrapper.kind # "none"
    /\ \E f \in Behaviours :
          lastOp' = Op("invoke", f, 0, InvokeWrapper(prov, wrapper.kind, f))
    /\ UNCHANGED <<environ, sdk_installed, prov, wrapper, sdkInits, hist, factoryVars, threadVars, appVars>>

\* with provider.trace_context(name): block
P_TraceContext ==
    /\ Constructed
    /\ \E block \in Behaviours :
          lastOp' = Op("trace_context", block, 0,
                       IF IsSentry THEN SentryTraceContext(prov, sdk_installed, block)
                       ELSE NoopTraceContext(prov, block))
    /\ UNCHANGED <<environ, sdk_installed, prov, wrapper, sdkInits, hist, factoryVars, threadVars, appVars>>

P_RecordError ==
    /\ Constructed
    /\ \E args \in RecordErrorArgs :
       \E failAt \in 0..NumCalls(RecordErrorSteps(sdk_installed, args)) :
          LET o == IF IsSentry THEN SentryRecordError(prov, sdk_installed, args, failAt)
                   ELSE NoopRecordError(prov, args)
          IN  /\ prov' = o.self
              /\ lastOp' = Op("record_error", args, failAt, o)
    /\ UNCHANGED <<environ, sdk_installed, wrapper, sdkInits, hist, factoryVars, threadVars, appVars>>

P_RecordEvent ==
    /\ Constructed
    /\ \E args \in RecordEventArgs :
       \E failAt \in 0..NumCalls(RecordEventSteps(sdk_installed, args)) :
          LET o == IF IsSentry THEN SentryRecordEvent(prov, sdk_installed, args, failAt)
                   ELSE NoopRecordEvent(prov, args)
          IN  /\ prov' = o.self
              /\ lastOp' = Op("record_event", args, failAt, o)
    /\ UNCHANGED <<environ, sdk_installed, wrapper, sdkInits, hist, factoryVars, threadVars, appVars>>

P_SetUserContext ==
    /\ Constructed
    /\ \E args \in SetUserContextArgs :
       \E failAt \in 0..NumCalls(SetUserContextSteps(sdk_installed, args)) :
          LET o == IF IsSentry THEN SentrySetUserContext(prov, sdk_installed, args, failAt)
                   ELSE NoopSetUserContext(prov, args)
          IN  /\ prov' = o.self
              /\ lastOp' = Op("set_user_context", args, failAt, o)
    /\ UNCHANGED <<environ, sdk_installed, wrapper, sdkInits, hist, factoryVars, threadVars, appVars>>

P_AddTags ==
    /\ Constructed
    /\ \E args \in AddTagsArgs :
       \E failAt \in 0..NumCalls(AddTagsSteps(sdk_installed, args)) :
          LET o == IF IsSentry THEN SentryAddTags(prov, sdk_installed, args, failAt)
                   ELSE NoopAddTags(prov, args)
          IN  /\ prov' = o.self
              /\ lastOp' = Op("add_tags", args, failAt, o)
    /\ UNCHANGED <<environ, sdk_installed, wrapper, sdkInits, hist, factoryVars, threadVars, appVars>>

InitProvider == InitCommon /\ sdk_installed \in BOOLEAN

NextProvider ==
    \/ P_New
    \/ P_SetDsn
    \/ P_Initialize
    \/ P_Decorate
    \/ P_Invoke
    \/ P_TraceContext
    \/ P_RecordError
    \/ P_RecordEvent
    \/ P_SetUserContext
    \/ P_AddTags

SpecProvider == InitProvider /\ [][NextProvider]_vars

----------------------------------------------------------------------------
(* One call of a function decorated by trace_decorator, step by step. The   *)
(* function is a plain `def` or an `async def`: calling an `async def`      *)
(* runs none of its body and returns a coroutine object; the body runs,     *)
(* suspending and resuming, once the caller awaits that object.             *)

MaxAwaits == 2

FunctionKinds == {"def", "async def"}

\* wrapped(...) is entered. For the tracing wrapper this is line 188,
\* `with sentry_sdk.start_span(...)`: the span is opened.
W_Enter ==
    /\ Constructed
    /\ wrapper.kind # "none"
    /\ coro.pos \in {"none", "returned"}
    /\ coro.body \in {"none", "returned", "raised"}
    /\ \E fn \in FunctionKinds :
          coro' = [fn |-> fn,
                   traced |-> wrapper.kind = "span",
                   enabled |-> wrapper.enabledAtDecoration,
                   pos |-> "entered",
                   span |-> IF wrapper.kind = "span" THEN "open" ELSE "none",
                   body |-> "none",
                   awaits |-> 0]
    /\ UNCHANGED <<environ, sdk_installed, factoryVars, threadVars, providerVars, notCoro>>

\* line 189, `func(*args, **func_kwargs)`: a plain function runs to its end
\* here; an async function only creates its coroutine object
W_CallFunc ==
    /\ coro.pos = "entered"
    /\ \/ /\ coro.fn = "def"
          /\ \E f \in Behaviours :
                coro' = [coro EXCEPT !.pos = "called",
                                     !.body = IF f.exc = "none" THEN "returned" ELSE "raised"]
       \/ /\ coro.fn = "async def"
          /\ coro' = [coro EXCEPT !.pos = "called", !.body = "created"]
    /\ UNCHANGED <<environ, sdk_installed, factoryVars, threadVars, providerVars, notCoro>>

\* lines 188-189: the `with` block is left by the return (or the exception),
\* which closes the span; wrapped(...) hands the value to its caller
W_Exit ==
    /\ coro.pos = "called"
    /\ coro' = [coro EXCEPT !.pos = "returned",
                            !.span = IF coro.traced THEN "closed" ELSE "none"]
    /\ UNCHANGED <<environ, sdk_installed, factoryVars, threadVars, providerVars, notCoro>>

\* `await wrapped(...)`: the caller awaits the coroutine object it was
\* handed; the body of the async function starts to run
Co_Start ==
    /\ coro.pos = "returned"
    /\ coro.body = "created"
    /\ coro' = [coro EXCEPT !.body = "running"]
    /\ UNCHANGED <<environ, sdk_installed, factoryVars, threadVars, providerVars, notCoro>>

\* the body reaches an `await` and is suspended
Co_Suspend ==
    /\ coro.body = "running"
    /\ coro.awaits < MaxAwaits
    /\ coro' = [coro EXCEPT !.body = "suspended", !.awaits = @ + 1]
    /\ UNCHANGED <<environ, sdk_installed, factoryVars, threadVars, providerVars, notCoro>>

\* the event loop resumes the body
Co_Resume ==
    /\ coro.body = "suspended"
    /\ coro' = [coro EXCEPT !.body = "running"]
    /\ UNCHANGED <<environ, sdk_installed, factoryVars, threadVars, providerVars, notCoro>>

\* the body returns or raises
Co_Finish ==
    /\ coro.body = "running"
    /\ \E f \in Behaviours :
          coro' = [coro EXCEPT !.body = IF f.exc = "none" THEN "returned" ELSE "raised"]
    /\ UNCHANGED <<environ, sdk_installed, factoryVars, threadVars, providerVars, notCoro>>

NextAsync ==
    \/ P_New
    \/ P_SetDsn
    \/ P_Initialize
    \/ P_Decorate
    \/ W_Enter
    \/ W_CallFunc
    \/ W_Exit
    \/ Co_Start
    \/ Co_Suspend
    \/ Co_Resume
    \/ Co_Finish

SpecAsync == InitProvider /\ [][NextAsync]_vars

----------------------------------------------------------------------------
(* SentryProvider._before_send_hook, called by the SDK on each event it is  *)
(* about to send. An event is a mapping from field names to values; its     *)
(* tags, when present, are a mapping from tag names to strings.             *)

s_fastapi_app == <<"f","a","s","t","a","p","i","-","a","p","p">>
s_svc == <<"s","v","c">>
s_old == <<"o","l","d">>
s_dev == <<"d","e","v">>
s_boom == <<"b","o","o","m">>
s_error == <<"e","r","r","o","r">>
s_debug == <<"d","e","b","u","g">>

\* The empty dict
EmptyDict == [k \in {} |-> <<>>]

\* d[k] = v on a dict
SetItem(d, k, v) == [x \in DOMAIN d \cup {k} |-> IF x = k THEN v ELSE d[x]]

\* lines 155-161. The value returned is the event object.
BeforeSendHookFreshTags(env, event) ==
    LET service == Getenv(env, "DD_SERVICE", s_fastapi_app)
        e1 == SetItem(event, "tags", EmptyDict)
    IN  [ty |-> "dict", v |-> SetItem(e1, "tags", SetItem(e1["tags"], "service", service))]

BeforeSendHook(env, event) ==
    LET service == Getenv(env, "DD_SERVICE", s_fastapi_app)
        e1 == IF "tags" \notin DOMAIN event THEN SetItem(event, "tags", EmptyDict)
              ELSE event
    IN  [ty |-> "dict", v |-> SetItem(e1, "tags", SetItem(e1["tags"], "service", service))]

\* Tag mappings of the events in the model
TagDicts ==
    { EmptyDict,
      [k \in {"env"} |-> s_dev],
      [k \in {"service"} |-> s_old],
      [k \in {"service", "env"} |-> IF k = "env" THEN s_dev ELSE s_old] }

\* The fields other than tags
EventBodies ==
    { EmptyDict,
      [k \in {"message"} |-> s_boom],
      [k \in {"level"} |-> s_old],
      [k \in {"message", "level"} |-> IF k = "message" THEN s_boom ELSE s_dev] }

\* Events with and without tags
Events ==
    EventBodies \cup { SetItem(b, "tags", t) : b \in EventBodies, t \in TagDicts }

ServiceEnvValues == { Unset, Val(<<>>), Val(s_svc), Val(s_old) }

\* DD_SERVICE changes in the environment
H_SetService ==
    \E v \in ServiceEnvValues :
        /\ environ' = [environ EXCEPT !["DD_SERVICE"] = v]
        /\ UNCHANGED <<sdk_installed, factoryVars, threadVars, providerVars, appVars>>

\* The SDK calls before_send(event, hint)
H_BeforeSend ==
    \E event \in Events :
        /\ hookCall' = [called |-> TRUE, env |-> environ["DD_SERVICE"], event |-> event,
                        ret |-> BeforeSendHook(environ, event)]
        /\ UNCHANGED <<environ, sdk_installed, factoryVars, threadVars, providerVars, notHook>>

NextHook ==
    \/ H_SetService
    \/ H_BeforeSend

SpecHook == InitProvider /\ [][NextHook]_vars

----------------------------------------------------------------------------
(* src/datadog.py: post_datadog_event, the handler of POST /datadog-event   *)

\* Status codes the Datadog events endpoint answers with in the model
StatusCodes == {200, 201, 202, 204, 301, 400, 403, 404, 429, 500, 503}

\* What client.post does: httpx raises a RequestError (no answer), or an
\* answer arrives with a status code and a body that is JSON or is not
Answers ==
    { [kind |-> "RequestError", status |-> 0, json_ok |-> FALSE] }
    \cup [kind : {"response"}, status : StatusCodes, json_ok : BOOLEAN]

\* DatadogEventRequest values
EventRequests ==
    [alert_type : {PStr("info"), PStr("error")},
     tags : {PNone, PList(<<PStr("app:fastapi")>>)},
     aggregation_key : {PNone, PStr("k")}]

\* lines 194-206: the payload; optional fields only if provided
Payload(request) ==
    [alert_type |-> request.alert_type,
     tags |-> IF Truthy(request.tags) THEN request.tags ELSE PNone,
     aggregation_key |-> IF Truthy(request.aggregation_key)
                         THEN request.aggregation_key ELSE PNone]

\* lines 216-231, inside the try: the exception raised ("none": the handler
\* returns response.json()), and whether line 227 logged an error
PostBody(answer) ==
    IF answer.kind = "RequestError" THEN [exc |-> "RequestError", logged |-> FALSE]
    ELSE IF answer.status = 202
         THEN [exc |-> IF answer.json_ok THEN "none" ELSE "ValueError", logged |-> FALSE]
         ELSE [exc |-> "HTTPException", logged |-> TRUE]

\* lines 192-238: the outcome of the handler. Both handlers log an error and
\* raise HTTPException(500); `except Exception` also catches the
\* HTTPException raised at line 228.
PostDatadogEvent(request, answer) ==
    LET b == PostBody(answer)
    IN  IF b.exc = "none"
        THEN [raised |-> "none", status_code |-> 200, returned |-> "response.json()",
              logged |-> b.logged]
        ELSE [raised |-> "HTTPException", status_code |-> 500, returned |-> "none",
              logged |-> TRUE]

\* POST /datadog-event
D_PostEvent ==
    \E request \in EventRequests, answer \in Answers :
        /\ ddPost' = [called |-> TRUE, request |-> request, payload |-> Payload(request),
                      answer |-> answer, outcome |-> PostDatadogEvent(request, answer),
                      events |-> ddPost.events]
        /\ UNCHANGED <<environ, sdk_installed, factoryVars, threadVars, providerVars, notPost>>

\* The start filter of GET /datadog-events (Optional[int])
StartFilters == {PNone, PInt(0), PInt(5)}

\* lines 264-278: the query parameters; a filter is added only if truthy
Params(start) ==
    [start |-> IF Truthy(start) THEN start ELSE PNone]

\* lines 281-293, inside the try of get_datadog_events: as PostBody, with
\* 200 as the only status that returns
GetBody(answer) ==
    IF answer.kind = "RequestError" THEN [exc |-> "RequestError", logged |-> FALSE]
    ELSE IF answer.status = 200
         THEN [exc |-> IF answer.json_ok THEN "none" ELSE "ValueError", logged |-> FALSE]
         ELSE [exc |-> "HTTPException", logged |-> TRUE]

\* lines 260-303: the outcome of get_datadog_events; lines 298-303 turn every
\* exception of the try, the HTTPException of line 290 included, into
\* HTTPException(500)
GetDatadogEvents(answer) ==
    LET b == GetBody(answer)
    IN  IF b.exc = "none"
        THEN [raised |-> "none", status_code |-> 200, returned |-> "response.json()",
              logged |-> b.logged]
        ELSE [raised |-> "HTTPException", status_code |-> 500, returned |-> "none",
              logged |-> TRUE]

\* GET /datadog-events
D_GetEvents ==
    \E start \in StartFilters, answer \in Answers :
        /\ ddPost' = [ddPost EXCEPT !.events =
                         [called |-> TRUE, params |-> Params(start), answer |-> answer,
                          outcome |-> GetDatadogEvents(answer)]]
        /\ UNCHANGED <<environ, sdk_installed, factoryVars, threadVars, providerVars, notPost>>

NextPost ==
    \/ D_PostEvent
    \/ D_GetEvents

SpecPost == InitProvider /\ [][NextPost]_vars

----------------------------------------------------------------------------
(* src/main.py: add_photo, the handler of POST /add_image, one step per     *)
(* stage: upload, detection, storage, the three detection checks, return.   *)

\* Exception classes raised in the handler; all derive from Exception
AppExceptions ==
    {"CustomError", "HTTPException", "RuntimeError", "ImportError", "TypeError",
     "DemoBugDetectionError"}

\* What the telemetry calls of one detection check do: for each call the
\* exception it raises, "none" if it returns
TelemetryFaults ==
    [bug_detection_event : {"none", "HTTPException"},
     app_event : {"none", "HTTPException"},
     record_event : {"none", "RuntimeError"},
     generate : {"none", "TypeError"},
     trace_context : {"none", "ImportError"},
     record_error : {"none", "RuntimeError"}]

\* `except Exception` at lines 744, 383/423/463, 390/430/477, 697/706/708
DispatchCatches(exc) == exc \in AppExceptions
InnerCatches(exc) == exc \in AppExceptions
OuterCatchesCustomErrorOnly(exc) == exc = "CustomError"

OuterCatches(exc) == exc \in AppExceptions
GenerateCatches(exc) == exc \in AppExceptions

\* _dispatch_detection_event, lines 712-766: the exception that leaves it, and
\* whether a telemetry call failed inside it
DispatchDetectionEvent(provider_name, is_enabled, f) ==
    IF provider_name = "datadog"
    THEN IF f.bug_detection_event # "none"
         THEN [exc |-> f.bug_detection_event, failed |-> TRUE]
         ELSE IF f.app_event # "none" /\ ~DispatchCatches(f.app_event)
         THEN [exc |-> f.app_event, failed |-> TRUE]
         ELSE [exc |-> "none", failed |-> f.app_event # "none"]
    ELSE IF ~is_enabled THEN [exc |-> "none", failed |-> FALSE]
    ELSE [exc |-> f.record_event, failed |-> f.record_event # "none"]

\* generate_unhandled_error, lines 654-709: tags and context are built outside
\* the try (663-684); trace_context, the nested raise and record_error are
\* inside it
GenerateUnhandledError(f) ==
    IF f.generate # "none" THEN [exc |-> f.generate, failed |-> TRUE]
    ELSE IF f.trace_context # "none"
    THEN [exc |-> IF GenerateCatches(f.trace_context) THEN "none" ELSE f.trace_context,
          failed |-> TRUE]
    ELSE IF ~GenerateCatches("DemoBugDetectionError")
    THEN [exc |-> "DemoBugDetectionError", failed |-> TRUE]
    ELSE IF f.record_error # "none"
    THEN [exc |-> IF GenerateCatches(f.record_error) THEN "none" ELSE f.record_error,
          failed |-> TRUE]
    ELSE [exc |-> "none", failed |-> FALSE]

\* The keys a detection check adds to response_data besides warning and type
ExtraKey(kind) ==
    CASE kind = "moderation" -> "moderation_labels"
      [] kind = "error_text" -> "text"
      [] kind = "bug" -> "labels"

\* One detection check, lines 354-391 / 394-431 / 434-478. check: the
\* amazon_* test returns False ("no"), returns True ("yes") or raises.
\* Yields the exception that leaves the block, whether the check counted as
\* triggered, the keys added to response_data, whether telemetry failed.
DetectionBlock(kind, check, provider_name, is_enabled, f) ==
    IF check = "no"
    THEN [exc |-> "none", triggered |-> FALSE, keys |-> {}, failed |-> FALSE]
    ELSE IF check = "raises"
    THEN [exc |-> IF OuterCatches("TypeError") THEN "none" ELSE "TypeError",
          triggered |-> FALSE, keys |-> {}, failed |-> FALSE]
    ELSE LET d == DispatchDetectionEvent(provider_name, is_enabled, f)
             afterInner == IF d.exc # "none" /\ InnerCatches(d.exc) THEN "none" ELSE d.exc
             g == IF kind = "bug" THEN GenerateUnhandledError(f)
                  ELSE [exc |-> "none", failed |-> FALSE]
             \* an exception raised in `finally` replaces the pending one
             leaving == IF g.exc # "none" THEN g.exc ELSE afterInner
         IN  IF leaving = "none"
             THEN [exc |-> "none", triggered |-> TRUE,
                   keys |-> {"warning", "type", ExtraKey(kind)},
                   failed |-> d.failed \/ g.failed]
             ELSE [exc |-> IF OuterCatches(leaving) THEN "none" ELSE leaving,
                   triggered |-> FALSE, keys |-> {}, failed |-> TRUE]

ProviderNames == {"datadog", "sentry", "noop"}
Backends == {"mongo", "postgres", "sqlserver", "redis"}
Checks == {"no", "yes", "raises"}

\* The handler returns `response` / is left by exception `raised`
Finish(ph, response, raised) ==
    [ph EXCEPT !.pc = "done", !.response = response, !.raised = raised]

\* The handler returns an error response of the given type
FinishError(ph, response, type) ==
    [Finish(ph, response, "none") EXCEPT !.type = type]

\* src/sqlserver.py lines 240-276: add_image_sqlserver returns the message
\* dict when the INSERT was committed; when execute_non_query_async raises
\* (no connection, or the INSERT raises) it logs and returns an error dict
AddImageSqlserver(conn_ok, insert_ok) ==
    IF conn_ok /\ insert_ok
    THEN [raised |-> FALSE, stored |-> TRUE, result |-> "message"]
    ELSE [raised |-> FALSE, stored |-> FALSE, result |-> "error"]

\* What the add_image_* call of a backend does: it raises, or returns a
\* result having stored the metadata or not
StoreOutcomes(backend) ==
    IF backend = "sqlserver"
    THEN { AddImageSqlserver(c, i) : c \in BOOLEAN, i \in BOOLEAN }
    ELSE { [raised |-> TRUE, stored |-> FALSE, result |-> "none"],
           [raised |-> FALSE, stored |-> TRUE, result |-> "message"] }

\* lines 316, 324, 332: the type of the error response of a backend
StorageErrorType(backend) ==
    CASE backend = "mongo" -> "mongodb_error"
      [] backend = "postgres" -> "postgres_error"
      [] backend = "sqlserver" -> "sqlserver_error"

\* lines 389, 429, 469: the type a triggered check writes
WarningType(kind) ==
    CASE kind = "moderation" -> "moderation_triggered"
      [] kind = "error_text" -> "error_text_detected"
      [] kind = "bug" -> "bug_detected"

CheckTypeFirstWins(old, kind) == IF old = "none" THEN WarningType(kind) ELSE old

\* response_data["type"] = ...: a triggered check overwrites the type
CheckType(old, kind) == WarningType(kind)

\* POST /add_image arrives
Ph_Request ==
    /\ photo.pc \in {"none", "done"}
    /\ \E name \in ProviderNames, en \in BOOLEAN, backend \in Backends :
          /\ name = "noop" => ~en
          /\ photo' = [called |-> TRUE, pc |-> "upload", provider |-> name,
                       is_enabled |-> en, backend |-> backend, stored |-> FALSE,
                       database_result |-> "none", response |-> {}, type |-> "none",
                       raised |-> "none", issues |-> {}, telemetryFailed |-> FALSE]
    /\ UNCHANGED <<environ, sdk_installed, factoryVars, threadVars, providerVars, notPhoto>>

\* lines 266-284: amazon_upload
Ph_Upload ==
    /\ photo.called
    /\ photo.pc = "upload"
    /\ \E s3_ok \in BOOLEAN :
          photo' = IF s3_ok THEN [photo EXCEPT !.pc = "detect"]
                   ELSE FinishError(photo, {"error", "type", "filename"}, "s3_upload_error")
    /\ UNCHANGED <<environ, sdk_installed, factoryVars, threadVars, providerVars, notPhoto>>

\* lines 287-305: amazon_detection
Ph_Detect ==
    /\ photo.called
    /\ photo.pc = "detect"
    /\ \E found \in BOOLEAN :
          photo' = IF found THEN [photo EXCEPT !.pc = "store"]
                   ELSE FinishError(photo, {"error", "type", "filename"},
                                    "rekognition_error")
    /\ UNCHANGED <<environ, sdk_installed, factoryVars, threadVars, providerVars, notPhoto>>

\* lines 308-348: the add_image_* function of the backend is called; the
\* handler returns an error response if it raises, and creates response_data
\* from whatever it returns otherwise
Ph_Store ==
    /\ photo.called
    /\ photo.pc = "store"
    /\ IF photo.backend \notin {"mongo", "postgres", "sqlserver"}
       THEN photo' = FinishError(photo, {"error", "type", "backend"}, "backend_error")
       ELSE \E out \in StoreOutcomes(photo.backend) :
               photo' = IF out.raised
                        THEN FinishError(photo, {"error", "type", "filename"},
                                         StorageErrorType(photo.backend))
                        ELSE [photo EXCEPT !.pc = "moderation", !.stored = out.stored,
                                           !.database_result = out.result,
                                           !.response = {"message", "database_result"}]
    /\ UNCHANGED <<environ, sdk_installed, factoryVars, threadVars, providerVars, notPhoto>>

\* The detection check `kind`, then on to position `next`
Ph_Check(kind, next) ==
    /\ photo.called
    /\ photo.pc = kind
    /\ \E check \in Checks, f \in TelemetryFaults :
          LET b == DetectionBlock(kind, check, photo.provider, photo.is_enabled, f)
          IN  photo' = IF b.exc # "none"
                       THEN [Finish(photo, {}, b.exc) EXCEPT !.telemetryFailed = @ \/ b.failed]
                       ELSE [photo EXCEPT !.pc = next,
                                          !.response = @ \cup b.keys,
                                          !.type = IF b.triggered THEN CheckType(@, kind)
                                                   ELSE @,
                                          !.issues = IF b.triggered THEN @ \cup {kind} ELSE @,
                                          !.telemetryFailed = @ \/ b.failed]
    /\ UNCHANGED <<environ, sdk_installed, factoryVars, threadVars, providerVars, notPhoto>>

\* lines 354-391
Ph_Moderation == Ph_Check("moderation", "error_text")

\* lines 394-431
Ph_ErrorText == Ph_Check("error_text", "bug")

\* lines 434-478
Ph_Bug == Ph_Check("bug", "return")

\* lines 481-484
Ph_Return ==
    /\ photo.called
    /\ photo.pc = "return"
    /\ photo' = Finish(photo,
                       photo.response \cup (IF photo.issues # {} THEN {"has_issues"} ELSE {}),
                       "none")
    /\ UNCHANGED <<environ, sdk_installed, factoryVars, threadVars, providerVars, notPhoto>>

NextPhoto ==
    \/ Ph_Request
    \/ Ph_Upload
    \/ Ph_Detect
    \/ Ph_Store
    \/ Ph_Moderation
    \/ Ph_ErrorText
    \/ Ph_Bug
    \/ Ph_Return

SpecPhoto == InitProvider /\ [][NextPhoto]_vars

----------------------------------------------------------------------------
(* src/observability/sentry_logging.py: get_sentry_logger and the log_*     *)
(* helpers built on it. prov stands for the object get_provider() returns.  *)

MaxVideos == 2

\* lines 19-29: whether sentry_sdk.logger is returned (otherwise None).
\* has_logger: the installed SDK has a `logger` attribute.
GetSentryLogger(self, installed, has_logger) ==
    LET exc == IF ~(Name(self) = SentryName /\ IsEnabled(self)) THEN "none"
               ELSE IF ~installed THEN "ImportError"
               ELSE IF ~has_logger THEN "AttributeError"
               ELSE "none"
    IN  /\ Name(self) = SentryName
        /\ IsEnabled(self)
        /\ exc = "none"

\* One record sent through sentry_sdk.logger
LogRecord(level, extra) == <<[level |-> level, extra |-> extra]>>

\* What a helper does once it holds a logger: the exception raised ("none"
\* if none) and the records emitted
Emit(level, extra) == [raised |-> "none", emitted |-> LogRecord(level, extra)]

\* lines 32-45
LogImageUploadStart(args) == Emit("info", [stage |-> "start"])

\* lines 87-101
LogImageDeletion(args) ==
    Emit(IF args.success THEN "info" ELSE "error",
         [status |-> IF args.success THEN "success" ELSE "failed"])

\* lines 236-252
LogApiRequest(args) ==
    Emit(IF args.status_code < 400 THEN "info" ELSE "warning",
         [status_code |-> args.status_code])

\* f"{(successful/urls_count*100):.1f}%", in tenths of a percent, rounded
SuccessRate(successful, urls_count) ==
    (2 * successful * 1000 + urls_count) \div (2 * urls_count)

\* lines 196-214: the extra dict is evaluated before logger.info is called
LogYoutubeBatchProcessing(args) ==
    IF args.urls_count = 0
    THEN [raised |-> "ZeroDivisionError", emitted |-> <<>>]
    ELSE Emit("info", [total_videos |-> args.urls_count,
                       success_rate |-> SuccessRate(args.successful, args.urls_count)])

\* lines 270-282: getattr(logger, level.lower(), logger.info)
LogCustom(args) ==
    LET level == Lower(args.level)
    IN  Emit(IF level = s_error THEN "error"
             ELSE IF level = s_debug THEN "debug"
             ELSE "info", [message |-> "m"])

\* A helper called: `logger = get_sentry_logger(); if logger: ...`
HelperCall(self, installed, has_logger, helper, args, body) ==
    LET logger == GetSentryLogger(self, installed, has_logger)
    IN  [called |-> TRUE, helper |-> helper, args |-> args, logger |-> logger,
         raised |-> IF logger THEN body.raised ELSE "none",
         emitted |-> IF logger THEN body.emitted ELSE <<>>]

L_ImageUploadStart ==
    /\ Constructed
    /\ \E has_logger \in BOOLEAN :
          logCall' = HelperCall(prov, sdk_installed, has_logger, "log_image_upload_start",
                                [filename |-> "f"], LogImageUploadStart([filename |-> "f"]))
    /\ UNCHANGED <<environ, sdk_installed, factoryVars, threadVars, providerVars, notLog>>

L_ImageDeletion ==
    /\ Constructed
    /\ \E has_logger \in BOOLEAN, args \in [success : BOOLEAN] :
          logCall' = HelperCall(prov, sdk_installed, has_logger, "log_image_deletion",
                                args, LogImageDeletion(args))
    /\ UNCHANGED <<environ, sdk_installed, factoryVars, threadVars, providerVars, notLog>>

L_ApiRequest ==
    /\ Constructed
    /\ \E has_logger \in BOOLEAN, args \in [status_code : {200, 399, 400, 500}] :
          logCall' = HelperCall(prov, sdk_installed, has_logger, "log_api_request",
                                args, LogApiRequest(args))
    /\ UNCHANGED <<environ, sdk_installed, factoryVars, threadVars, providerVars, notLog>>

L_YoutubeBatchProcessing ==
    /\ Constructed
    /\ \E has_logger \in BOOLEAN, urls_count \in 0..MaxVideos :
       \E successful \in 0..urls_count :
          LET args == [urls_count |-> urls_count, successful |-> successful,
                       failed |-> urls_count - successful]
          IN  logCall' = HelperCall(prov, sdk_installed, has_logger,
                                    "log_youtube_batch_processing", args,
                                    LogYoutubeBatchProcessing(args))
    /\ UNCHANGED <<environ, sdk_installed, factoryVars, threadVars, providerVars, notLog>>

L_Custom ==
    /\ Constructed
    /\ \E has_logger \in BOOLEAN, args \in [level : {s_error, s_debug, s_dev, <<"E","R","R","O","R">>}] :
          logCall' = HelperCall(prov, sdk_installed, has_logger, "log_custom",
                                args, LogCustom(args))
    /\ UNCHANGED <<environ, sdk_installed, factoryVars, threadVars, providerVars, notLog>>

NextLog ==
    \/ P_New
    \/ P_SetDsn
    \/ P_Initialize
    \/ L_ImageUploadStart
    \/ L_ImageDeletion
    \/ L_ApiRequest
    \/ L_YoutubeBatchProcessing
    \/ L_Custom

SpecLog == InitProvider /\ [][NextLog]_vars

----------------------------------------------------------------------------
(* src/main.py: the provider resolved when the module is imported (lines    *)
(* 107-110) and GET /health (lines 578-593).                                *)

\* DatadogProvider after initialize(); ok: what its is_enabled then reports
DatadogInitialized(ok) == [cls |-> "DatadogProvider", enabled |-> ok]

\* provider.is_enabled for the three classes
ProviderIsEnabled(self) ==
    IF self.cls = "DatadogProvider" THEN self.enabled ELSE IsEnabled(self)

\* lines 109-110: get_provider() then initialize()
StartupProvider(env, installed, inp, dd_ok) ==
    LET cls == ResolveProvider(env).cls
        obj == Construct(cls, env)
    IN  CASE cls = "SentryProvider" -> SentryInitialize(obj, installed, inp).self
          [] cls = "NoopProvider" -> NoopInitialize(obj).self
          [] cls = "DatadogProvider" -> DatadogInitialized(dd_ok)

\* The object health_check reads: the module global bound at line 109
HealthSubjectSingleton(h) == h.singleton

HealthSubject(h) == h.provider

\* lines 586-593
HealthCheck(h) ==
    [status |-> "healthy",
     observability_provider |-> Name(HealthSubject(h)),
     observability_enabled |-> ProviderIsEnabled(HealthSubject(h))]

\* main.py is imported
App_Startup ==
    /\ ~health.started
    /\ \E inp \in InitializeInputs, dd_ok \in BOOLEAN :
          LET p == StartupProvider(environ, sdk_installed, inp, dd_ok)
          IN  health' = [health EXCEPT !.started = TRUE, !.provider = p, !.singleton = p]
    /\ UNCHANGED <<environ, sdk_installed, factoryVars, threadVars, providerVars, notHealth>>

\* reset_provider() followed by get_provider(): the singleton slot holds a
\* new object; the global of main.py is not rebound
App_ResetProvider ==
    /\ health.started
    /\ LET cls == ResolveProvider(environ).cls
       IN  health' = [health EXCEPT
                        !.singleton = IF cls = "DatadogProvider" THEN DatadogInitialized(FALSE)
                                      ELSE Construct(cls, environ)]
    /\ UNCHANGED <<environ, sdk_installed, factoryVars, threadVars, providerVars, notHealth>>

\* GET /health
App_HealthCheck ==
    /\ health.started
    /\ health' = [health EXCEPT !.asked = TRUE, !.response = HealthCheck(health)]
    /\ UNCHANGED <<environ, sdk_installed, factoryVars, threadVars, providerVars, notHealth>>

NextHealth ==
    \/ SetProviderEnv
    \/ P_SetDsn
    \/ App_Startup
    \/ App_ResetProvider
    \/ App_HealthCheck

SpecHealth == InitProvider /\ [][NextHealth]_vars

----------------------------------------------------------------------------
(* src/main.py: _dispatch_detection_event, with the calls it makes to the   *)
(* Datadog events API, to the email channel and to the provider.            *)

DetectionTypes == {"moderation", "error_text", "bug"}

\* What the outbound calls of one dispatch do
DispatchFaults == [post_ok : BOOLEAN, app_event_ok : BOOLEAN, record_event_ok : BOOLEAN]

\* datadog.py lines 439-561, bug_detection_event: an email for a bug
\* detection, then the event post; when that fails an error email, then
\* HTTPException
BugDetectionEvent(detection_type, post_ok) ==
    LET mail == IF detection_type = "bug" THEN <<"send_email_notification">> ELSE <<>>
    IN  IF post_ok
        THEN [calls |-> mail \o <<"post_datadog_event">>, exc |-> "none"]
        ELSE [calls |-> mail \o <<"post_datadog_event", "send_email_notification">>,
              exc |-> "HTTPException"]

\* line 749: `if not observability_provider.is_enabled`
DispatchSkipsNever(is_enabled) == FALSE

DispatchSkips(is_enabled) == ~is_enabled

\* lines 725-766: the outbound calls made, whether the failure of app_event
\* was logged (line 745), the exception that leaves the function ("none" if
\* it returns) and the pair returned
DispatchCalls(provider_name, is_enabled, detection_type, f) ==
    IF provider_name = "datadog"
    THEN LET b == BugDetectionEvent(detection_type, f.post_ok)
         IN  IF b.exc # "none"
             THEN [calls |-> b.calls, logged |-> FALSE, exc |-> b.exc, ret |-> <<>>]
             ELSE [calls |-> b.calls \o <<"app_event">>, logged |-> ~f.app_event_ok,
                   exc |-> "none", ret |-> <<TRUE, provider_name>>]
    ELSE IF DispatchSkips(is_enabled)
    THEN [calls |-> <<>>, logged |-> FALSE, exc |-> "none",
          ret |-> <<FALSE, provider_name>>]
    ELSE IF f.record_event_ok
    THEN [calls |-> <<"record_event">>, logged |-> FALSE, exc |-> "none",
          ret |-> <<TRUE, provider_name>>]
    ELSE [calls |-> <<"record_event">>, logged |-> FALSE, exc |-> "RuntimeError",
          ret |-> <<>>]

\* await _dispatch_detection_event(...)
Dsp_Call ==
    \E name \in ProviderNames, en \in BOOLEAN, dt \in DetectionTypes, f \in DispatchFaults :
        /\ name = "noop" => ~en
        /\ LET r == DispatchCalls(name, en, dt, f)
           IN  dispatch' = [called |-> TRUE, provider_name |-> name, is_enabled |-> en,
                            detection_type |-> dt, faults |-> f, calls |-> r.calls,
                            logged |-> r.logged, exc |-> r.exc, ret |-> r.ret]
        /\ UNCHANGED <<environ, sdk_installed, factoryVars, threadVars, providerVars, notDispatch>>

NextDispatch ==
    \/ Dsp_Call

SpecDispatch == InitProvider /\ [][NextDispatch]_vars

----------------------------------------------------------------------------
(* src/openai_service.py: summarize_youtube_video, the handler of POST      *)
(* /summarize-youtube, and src/services/youtube_service.py:                 *)
(* process_youtube_video, one step per stage of the latter.                 *)

\* d.get(key, None)
DictGet(d, key) == IF key \in DOMAIN d THEN d[key] ELSE PNone

\* line 116: the hosts get_video_id accepts
YoutubeHosts == {"www.youtube.com", "youtube.com", "m.youtube.com", "youtu.be"}

\* Request URLs as urlparse and parse_qs see them: the host, the characters
\* of the path, and the first value of the query parameter v (parse_qs
\* drops a blank one)
Urls ==
    [netloc : {"www.youtube.com", "youtu.be", "example.com"},
     path : {<<"/">>, <<"/", "a">>},
     v : {PNone, PStr("b")}]

\* lines 112-127: get_video_id; path[1:] for the short host, the v
\* parameter for the others, None otherwise
GetVideoId(u) ==
    IF u.netloc \in YoutubeHosts
    THEN IF u.netloc = "youtu.be"
         THEN [ty |-> "str", chars |-> Tail(u.path)]
         ELSE IF u.v # PNone THEN [ty |-> "str", chars |-> <<u.v.v>>] ELSE PNone
    ELSE PNone

\* line 23: `not video_id`
NotVideoId(id) == id.ty = "NoneType" \/ Len(id.chars) = 0

\* What get_youtube_video_details_pytube returns (lines 130-180): the
\* metadata, with an error key when pytube and the fallback both failed
DetailsOutcomes ==
    { [title |-> "T", published_date |-> "d", channel |-> "c", views |-> 1],
      [title |-> "YouTube Video: id", published_date |-> "now",
       channel |-> "Unknown Channel", views |-> 0, error |-> PStr("metadata")] }

\* What get_youtube_transcript returns (lines 253-272): the transcript, or
\* an error dict whose text is str(e) of the library's exception
TranscriptOutcomes ==
    { [transcript |-> "t", language |-> "en"],
      [error |-> PStr("no transcript")],
      [error |-> PStr("")] }

\* What generate_video_summary_async returns (lines 274-319): the content of
\* the completion (a string, possibly empty, or None), or an error dict
SummaryOutcomes ==
    { [summary |-> PStr("s")], [summary |-> PStr("")], [summary |-> PNone],
      [error |-> PStr("Error during AI summarization")] }

\* What the Notion save does: NotionVideoPayload(...) or
\* add_video_summary_to_notion raises, or the latter returns a dict
NotionOutcomes ==
    { [raises |-> TRUE, dict |-> EmptyDict],
      [raises |-> FALSE, dict |-> [notion_page_id |-> "p"]],
      [raises |-> FALSE, dict |-> [error |-> PStr("notion down")]],
      [raises |-> FALSE, dict |-> EmptyDict] }

NotionAttemptedAlways(save_to_notion, summary_result) == save_to_notion

\* line 57: the Notion save is attempted if requested and a summary exists
NotionAttempted(save_to_notion, summary_result) ==
    /\ save_to_notion
    /\ "summary" \in DOMAIN summary_result
    /\ Truthy(summary_result["summary"])

\* lines 84-108: the response of process_youtube_video
BuildResponse(video_id, video_details, transcript_result, summary_result, notion_result) ==
    LET base == [video_id |-> video_id,
                 transcript |-> transcript_result["transcript"],
                 language |-> transcript_result["language"],
                 summary |-> DictGet(summary_result, "summary"),
                 error |-> DictGet(summary_result, "error")]
        details == [k \in DOMAIN video_details \cap {"title", "published_date", "channel"}
                        |-> video_details[k]]
        page == IF "notion_page_id" \in DOMAIN notion_result
                THEN [notion_page_id |-> notion_result["notion_page_id"]]
                ELSE EmptyDict
        nerr == IF "error" \in DOMAIN notion_result /\ Truthy(notion_result["error"])
                THEN [notion_error |-> notion_result["error"]]
                ELSE EmptyDict
    IN  base @@ details @@ page @@ nerr

SummarizeStatusAlways500(exc) == 500

\* openai_service.py lines 144-150: `except HTTPException: raise` comes
\* before `except Exception`, which raises HTTPException(500)
SummarizeStatus(exc) == IF exc.type = "HTTPException" THEN exc.status_code ELSE 500

\* openai_service.py lines 121-143, inside the try: the exception raised or
\* the response dict built from the result
SummarizeBody(result) ==
    IF "error" \in DOMAIN result /\ Truthy(result["error"])
    THEN [exc |-> [type |-> "HTTPException", status_code |-> 400], response |-> EmptyDict]
    ELSE IF ~({"video_id", "transcript", "language", "summary"} \subseteq DOMAIN result)
    THEN [exc |-> [type |-> "KeyError", status_code |-> 0], response |-> EmptyDict]
    ELSE [exc |-> [type |-> "none", status_code |-> 0],
          response |-> [k \in DOMAIN result \cap
                              {"video_id", "transcript", "language", "summary", "title",
                               "published_date", "notion_page_id", "notion_error"}
                          |-> result[k]]]

\* openai_service.py lines 112-150: what the handler does with the result
SummarizeYoutubeVideo(result) ==
    LET b == SummarizeBody(result)
    IN  IF b.exc.type = "none"
        THEN [raised |-> "none", status_code |-> 200, response |-> b.response]
        ELSE [raised |-> "HTTPException", status_code |-> SummarizeStatus(b.exc),
              response |-> EmptyDict]

\* The request is received and process_youtube_video is entered
Yt_Request ==
    /\ youtube.pc \in {"none", "done"}
    /\ \E u \in Urls, save \in BOOLEAN :
          youtube' = [called |-> TRUE, pc |-> "video_id", url |-> u,
                      save_to_notion |-> save, calls |-> <<>>, video_id |-> PNone,
                      video_details |-> EmptyDict, transcript_result |-> EmptyDict,
                      summary_result |-> EmptyDict, notion_result |-> EmptyDict,
                      raised |-> FALSE, result |-> EmptyDict,
                      outcome |-> [raised |-> "none", status_code |-> 0,
                                   response |-> EmptyDict]]
    /\ UNCHANGED <<environ, sdk_installed, factoryVars, threadVars, providerVars, notYoutube>>

\* lines 21-25: the video id, or the early return for an invalid URL
Yt_VideoId ==
    /\ youtube.pc = "video_id"
    /\ LET id == GetVideoId(youtube.url)
       IN  youtube' = [youtube EXCEPT
                         !.calls = Append(@, "get_video_id"),
                         !.video_id = id,
                         !.result = IF NotVideoId(id)
                                    THEN [error |-> PStr("Invalid YouTube URL")] ELSE @,
                         !.pc = IF NotVideoId(id) THEN "handler"
                                ELSE IF youtube.save_to_notion THEN "details"
                                ELSE "transcript"]
    /\ UNCHANGED <<environ, sdk_installed, factoryVars, threadVars, providerVars, notYoutube>>

\* lines 28-36: the metadata, fetched in the executor when the summary is
\* to be saved; run_in_executor may raise (line 109 then returns the error)
Yt_Details ==
    /\ youtube.pc = "details"
    /\ \E executor_ok \in BOOLEAN, d \in DetailsOutcomes :
          youtube' = IF executor_ok
                     THEN [youtube EXCEPT
                             !.calls = Append(@, "get_youtube_video_details_pytube"),
                             !.video_details = d,
                             !.pc = "transcript"]
                     ELSE [youtube EXCEPT
                             !.raised = TRUE,
                             !.result = [error |-> PStr("Server error")],
                             !.pc = "handler"]
    /\ UNCHANGED <<environ, sdk_installed, factoryVars, threadVars, providerVars, notYoutube>>

\* lines 41-48: the transcript, or the early return of its error dict
Yt_Transcript ==
    /\ youtube.pc = "transcript"
    /\ \E executor_ok \in BOOLEAN, t \in TranscriptOutcomes :
          youtube' = IF ~executor_ok
                     THEN [youtube EXCEPT
                             !.raised = TRUE,
                             !.result = [error |-> PStr("Server error")],
                             !.pc = "handler"]
                     ELSE [youtube EXCEPT
                             !.calls = Append(@, "get_youtube_transcript"),
                             !.transcript_result = t,
                             !.result = IF "error" \in DOMAIN t THEN t ELSE @,
                             !.pc = IF "error" \in DOMAIN t THEN "handler" ELSE "summary"]
    /\ UNCHANGED <<environ, sdk_installed, factoryVars, threadVars, providerVars, notYoutube>>

\* lines 51-53: the summarization by the language model
Yt_Summary ==
    /\ youtube.pc = "summary"
    /\ \E s \in SummaryOutcomes :
          youtube' = [youtube EXCEPT
                        !.calls = Append(@, "generate_video_summary_async"),
                        !.summary_result = s,
                        !.pc = IF NotionAttempted(youtube.save_to_notion, s)
                               THEN "notion" ELSE "return"]
    /\ UNCHANGED <<environ, sdk_installed, factoryVars, threadVars, providerVars, notYoutube>>

\* lines 56-81: the Notion save; its exceptions become an error dict
Yt_Notion ==
    /\ youtube.pc = "notion"
    /\ \E n \in NotionOutcomes :
          youtube' = [youtube EXCEPT
                        !.calls = Append(@, "add_video_summary_to_notion"),
                        !.notion_result = IF n.raises
                                          THEN [error |-> PStr("Error saving to Notion")]
                                          ELSE n.dict,
                        !.pc = "return"]
    /\ UNCHANGED <<environ, sdk_installed, factoryVars, threadVars, providerVars, notYoutube>>

\* lines 84-107: the response is built and returned
Yt_Return ==
    /\ youtube.pc = "return"
    /\ youtube' = [youtube EXCEPT
                     !.result = BuildResponse(youtube.video_id, youtube.video_details,
                                              youtube.transcript_result,
                                              youtube.summary_result, youtube.notion_result),
                     !.pc = "handler"]
    /\ UNCHANGED <<environ, sdk_installed, factoryVars, threadVars, providerVars, notYoutube>>

\* openai_service.py lines 120-150: the handler turns the result into a
\* response or an HTTPException
Yt_Respond ==
    /\ youtube.pc = "handler"
    /\ youtube' = [youtube EXCEPT !.outcome = SummarizeYoutubeVideo(youtube.result),
                                  !.pc = "done"]
    /\ UNCHANGED <<environ, sdk_installed, factoryVars, threadVars, providerVars, notYoutube>>

NextYoutube ==
    \/ Yt_Request
    \/ Yt_VideoId
    \/ Yt_Details
    \/ Yt_Transcript
    \/ Yt_Summary
    \/ Yt_Notion
    \/ Yt_Return
    \/ Yt_Respond

SpecYoutube == InitProvider /\ [][NextYoutube]_vars

----------------------------------------------------------------------------
(* src/main.py: CustomError.__init__ *)

\* The error_type arguments
ErrorTypes == {PNone, PStr(""), PStr("invalid_backend")}

\* The tags arguments: None or a list of (key, value) tuples, strings and
\* other items
TagLists ==
    { PNone, PList(<<>>),
      PList(<<PTuple(<<PStr("error.source"), PStr("s3")>>)>>),
      PList(<<PStr("flag")>>),
      PList(<<PTuple(<<PStr("error.source"), PStr("s3")>>), PStr("flag"), PInt(1)>>) }

\* What the provider does during the construction: get_provider() returns
\* or raises, is_enabled, and record_error returns or raises
ProviderFaults == [get_provider_ok : BOOLEAN, is_enabled : BOOLEAN, record_error_ok : BOOLEAN]

\* lines 75-81: the tags list as a dict; 2-tuples give key and value,
\* strings give key and True, other items are skipped
RECURSIVE TagsDict(_)
TagsDict(tags) ==
    IF tags = <<>> THEN EmptyDict
    ELSE LET tag == Head(tags)
             one == IF tag.ty = "tuple" /\ Len(tag.v) = 2
                    THEN [k \in {tag.v[1].v} |-> tag.v[2]]
                    ELSE IF tag.ty = "str" THEN [k \in {tag.v} |-> PBool(TRUE)]
                    ELSE EmptyDict
         IN  TagsDict(Tail(tags)) @@ one

CustomErrorRecordsAlways(is_enabled) == TRUE

\* line 72: `if provider.is_enabled`
CustomErrorRecords(is_enabled) == is_enabled

\* lines 60-95: the attributes of the constructed object, the record_error
\* calls made, the exception that leaves __init__ ("none": it returns) and
\* the error line logged
CustomErrorInit(message, error_type, tags, f) ==
    LET self == [message |-> message,
                 error_type |-> IF Truthy(error_type) THEN error_type
                                ELSE PStr("application_error"),
                 tags |-> IF Truthy(tags) THEN tags ELSE PList(<<>>)]
        call == [error_type |-> self.error_type, tags |-> TagsDict(self.tags.v)]
    IN  IF ~f.get_provider_ok
        THEN [self |-> self, calls |-> <<>>, exc |-> "none", logged |-> "Failed to record"]
        ELSE IF ~CustomErrorRecords(f.is_enabled)
        THEN [self |-> self, calls |-> <<>>, exc |-> "none",
              logged |-> "observability disabled"]
        ELSE IF f.record_error_ok
        THEN [self |-> self, calls |-> <<call>>, exc |-> "none", logged |-> "Recorded"]
        ELSE [self |-> self, calls |-> <<call>>, exc |-> "none",
              logged |-> "Failed to record"]

\* CustomError(message, error_type, tags)
CE_Construct ==
    \E error_type \in ErrorTypes, tags \in TagLists, f \in ProviderFaults :
        /\ customError' = [called |-> TRUE, error_type |-> error_type, tags |-> tags,
                           faults |-> f,
                           result |-> CustomErrorInit(PStr("m"), error_type, tags, f)]
        /\ UNCHANGED <<environ, sdk_installed, factoryVars, threadVars, providerVars,
                       notCustomError>>

NextCustomError ==
    \/ CE_Construct

SpecCustomError == InitProvider /\ [][NextCustomError]_vars

----------------------------------------------------------------------------
(* src/main.py: delete_image, the handler of DELETE /delete_image/{id}, and *)
(* src/sqlserver.py: get_image_sqlserver, delete_image_sqlserver.           *)

\* src/sqlserver.py lines 158-199: get_image_sqlserver returns the image as a
\* dict, or an error dict when the query raises (no connection) or finds no
\* row; it never raises
GetImageSqlserver(conn_ok, found) ==
    IF conn_ok /\ found THEN "item" ELSE "error"

\* What the lookup of a backend does: it returns the image ("item"), returns
\* an error dict ("error"), or raises CustomError
LookupOutcomes(backend) ==
    IF backend = "sqlserver"
    THEN { GetImageSqlserver(c, f) : c \in BOOLEAN, f \in BOOLEAN }
    ELSE {"item", "error", "CustomError"}

\* What the delete call of a backend and amazon_delete_one_s3 do: whether
\* each raises CustomError (delete_image_sqlserver, lines 279-296, never does)
DeleteFaults == [delete_raises : BOOLEAN, s3_raises : BOOLEAN]

\* The type of the error response of a backend, lines 508, 517, 526
DeleteErrorType(backend) ==
    CASE backend = "mongo" -> "mongodb_delete_error"
      [] backend = "postgres" -> "postgres_delete_error"
      [] backend = "sqlserver" -> "sqlserver_delete_error"

\* lines 505, 514, 523, 546: `except CustomError`
DeleteCatches(exc) == exc = "CustomError"

\* The handler returns
Returned(keys, type, s3_attempted, delete_attempted) ==
    [raised |-> "none", response |-> keys, type |-> type,
     s3_attempted |-> s3_attempted, delete_attempted |-> delete_attempted]

\* An exception leaves the handler
Unhandled(exc, s3_attempted, delete_attempted) ==
    [raised |-> exc, response |-> {}, type |-> "none",
     s3_attempted |-> s3_attempted, delete_attempted |-> delete_attempted]

\* An exception raised in one of the try blocks: an error response if the
\* except clause catches it
Caught(exc, keys, type, s3_attempted, delete_attempted) ==
    IF DeleteCatches(exc)
    THEN Returned(keys, type, s3_attempted, delete_attempted)
    ELSE Unhandled(exc, s3_attempted, delete_attempted)

\* lines 542-551: the S3 deletion, given the value the lookup returned
DeleteFromS3(lookup, f) ==
    IF lookup = "error"
    THEN Caught("KeyError", {"error", "type", "id", "filename"}, "s3_delete_error",
                FALSE, TRUE)
    ELSE IF f.s3_raises
    THEN Caught("CustomError", {"error", "type", "id", "filename"}, "s3_delete_error",
                TRUE, TRUE)
    ELSE Returned({"message"}, "none", TRUE, TRUE)

\* lines 486-551: delete_image. id_numeric: int(id) succeeds.
DeleteImage(backend, id_numeric, lookup, f) ==
    IF backend \notin {"mongo", "postgres", "sqlserver"}
    THEN Returned({"error", "type", "backend"}, "backend_error", FALSE, FALSE)
    ELSE IF backend = "sqlserver" /\ ~id_numeric
    THEN Caught("ValueError", {"error", "type", "id"}, DeleteErrorType(backend),
                FALSE, FALSE)
    ELSE IF lookup = "CustomError"
    THEN Caught("CustomError", {"error", "type", "id"}, DeleteErrorType(backend),
                FALSE, FALSE)
    ELSE IF backend # "sqlserver" /\ f.delete_raises
    THEN Caught("CustomError", {"error", "type", "id"}, DeleteErrorType(backend),
                FALSE, TRUE)
    ELSE DeleteFromS3(lookup, f)

\* DELETE /delete_image/{id}
Del_Request ==
    \E backend \in Backends, id_numeric \in BOOLEAN, f \in DeleteFaults :
      \E lookup \in LookupOutcomes(backend) :
        /\ deletion' = [called |-> TRUE, backend |-> backend, id_numeric |-> id_numeric,
                        lookup |-> lookup, faults |-> f,
                        outcome |-> DeleteImage(backend, id_numeric, lookup, f)]
        /\ UNCHANGED <<environ, sdk_installed, factoryVars, threadVars, providerVars,
                       notDeletion>>

NextDeletion ==
    \/ Del_Request

SpecDeletion == InitProvider /\ [][NextDeletion]_vars

----------------------------------------------------------------------------
(* src/sqlserver.py: get_connection and execute_non_query_async. The calls  *)
(* run on the threads of `executor` and share the module global `conn`;     *)
(* a pytds connection (autocommit off) has one open transaction that every  *)
(* cursor on it writes to.                                                  *)

\* pytds.connect(): a connection not yet open
NewConnection(live) == CHOOSE c \in 1..MaxConnections : c \notin live

\* lines 81-86: get_connection() at import; pytds.connect succeeds or raises
Sql_Load ==
    /\ ~sql.called
    /\ \E ok \in BOOLEAN :
          sql' = IF ok THEN [sql EXCEPT !.called = TRUE, !.conn = 1, !.live = {1}]
                 ELSE [sql EXCEPT !.called = TRUE]
    /\ UNCHANGED <<environ, sdk_installed, factoryVars, threadVars, providerVars, notSql>>

\* line 139: the pool starts _execute of a new call on thread t
Sql_Start(t) ==
    /\ sql.called
    /\ sql.thr[t].pc = "idle"
    /\ sql.thr[t].calls < MaxStatements
    /\ sql' = [sql EXCEPT !.thr[t] = [pc |-> "get", connection |-> None,
                                      stmt |-> <<t, @.calls + 1>>,
                                      calls |-> @.calls + 1]]
    /\ UNCHANGED <<environ, sdk_installed, factoryVars, threadVars, providerVars, notSql>>

\* line 69: get_connection reads the global; `conn is None` decides whether
\* it connects, otherwise line 75 returns the shared connection
Sql_GetConnection(t) ==
    /\ sql.thr[t].pc = "get"
    /\ sql' = IF sql.conn = None
              THEN [sql EXCEPT !.thr[t].pc = "connect"]
              ELSE [sql EXCEPT !.thr[t].pc = "execute", !.thr[t].connection = sql.conn]
    /\ UNCHANGED <<environ, sdk_installed, factoryVars, threadVars, providerVars, notSql>>

\* lines 71-79: pytds.connect() and the assignment of the global; on failure
\* the global is set to None, None is returned and line 142 raises
Sql_Connect(t) ==
    /\ sql.thr[t].pc = "connect"
    /\ \E ok \in BOOLEAN :
          IF ok
          THEN /\ Cardinality(sql.live) < MaxConnections
               /\ LET c == NewConnection(sql.live)
                  IN  sql' = [sql EXCEPT !.conn = c, !.live = @ \cup {c},
                                         !.thr[t].pc = "execute",
                                         !.thr[t].connection = c]
          ELSE sql' = [sql EXCEPT !.conn = None,
                                  !.failed = @ \cup {sql.thr[t].stmt},
                                  !.thr[t].pc = "idle"]
    /\ UNCHANGED <<environ, sdk_installed, factoryVars, threadVars, providerVars, notSql>>

\* lines 144-146: cursor.execute adds the statement to the open transaction
\* of the connection, or raises
Sql_Execute(t) ==
    /\ sql.thr[t].pc = "execute"
    /\ \E ok \in BOOLEAN :
          sql' = IF ok
                 THEN [sql EXCEPT !.pending[sql.thr[t].connection] = @ \cup {sql.thr[t].stmt},
                                  !.thr[t].pc = "commit"]
                 ELSE [sql EXCEPT !.thr[t].pc = "rollback"]
    /\ UNCHANGED <<environ, sdk_installed, factoryVars, threadVars, providerVars, notSql>>

\* lines 147-148: connection.commit() commits the open transaction of the
\* connection and the call returns the row count, or commit raises
Sql_Commit(t) ==
    /\ sql.thr[t].pc = "commit"
    /\ \E ok \in BOOLEAN :
          sql' = IF ok
                 THEN [sql EXCEPT !.committed = @ \cup sql.pending[sql.thr[t].connection],
                                  !.pending[sql.thr[t].connection] = {},
                                  !.returned = @ \cup {sql.thr[t].stmt},
                                  !.thr[t].pc = "idle"]
                 ELSE [sql EXCEPT !.thr[t].pc = "rollback"]
    /\ UNCHANGED <<environ, sdk_installed, factoryVars, threadVars, providerVars, notSql>>

\* lines 149-153: connection.rollback() discards the open transaction of the
\* connection and the exception is raised again
Sql_Rollback(t) ==
    /\ sql.thr[t].pc = "rollback"
    /\ sql' = [sql EXCEPT !.pending[sql.thr[t].connection] = {},
                          !.failed = @ \cup {sql.thr[t].stmt},
                          !.thr[t].pc = "idle"]
    /\ UNCHANGED <<environ, sdk_installed, factoryVars, threadVars, providerVars, notSql>>

NextSql ==
    \/ Sql_Load
    \/ \E t \in SqlThreads : Sql_Start(t)
    \/ \E t \in SqlThreads : Sql_GetConnection(t)
    \/ \E t \in SqlThreads : Sql_Connect(t)
    \/ \E t \in SqlThreads : Sql_Execute(t)
    \/ \E t \in SqlThreads : Sql_Commit(t)
    \/ \E t \in SqlThreads : Sql_Rollback(t)

SpecSql == InitProvider /\ [][NextSql]_vars

----------------------------------------------------------------------------
(* Claims about the factory *)

\* The name the configuration value v of OBSERVABILITY_PROVIDER must select.
ExpectedName(v) ==
    IF ~v.set THEN "datadog"
    ELSE LET n == Strip(Lower(v.val))
         IN  CASE n = s_datadog -> "datadog"
               [] n = s_sentry -> "sentry"
               [] n \in {s_disabled, s_none, s_noop} -> "noop"
               [] OTHER -> "datadog"

ExpectedWarning(v) ==
    v.set /\ Strip(Lower(v.val)) \notin {s_datadog, s_sentry, s_disabled, s_none, s_noop}

\* C1: with no reset_provider() in between, every get_provider() call returns
\* the same instance as the first one, whatever happens to the environment
\* between the calls, and no second instance is constructed.
C1_Singleton ==
    /\ Cardinality(epochReturns) <= 1
    /\ Len(instances) - epochBase <= 1
    /\ (lastCall.op = "get_provider" => epochReturns = {lastCall.ret})

\* C1 witness: a later call returned the cached instance although the
\* environment now selects another class.
C1_Witness ==
    /\ lastCall.op = "get_provider"
    /\ ~lastCall.constructed
    /\ retired = {}
    /\ ResolveProvider(environ).cls # instances[lastCall.ret].cls

\* C2: the first resolution maps every configuration value to a provider:
\* datadog for datadog/unset, sentry for sentry, noop for disabled/none/noop
\* (case-insensitively, whitespace trimmed), datadog with a warning otherwise.
C2_Resolution ==
    [][(lastCall'.op = "get_provider" /\ lastCall'.constructed)
        => /\ lastCall'.ret \in 1..Len(instances')
           /\ Name(instances'[lastCall'.ret]) = ExpectedName(environ["OBSERVABILITY_PROVIDER"])
           /\ lastCall'.warned = ExpectedWarning(environ["OBSERVABILITY_PROVIDER"])]_vars

\* C2 witness: " SENTRY\n" resolved to the sentry provider.
C2_Witness ==
    /\ lastCall.op = "get_provider"
    /\ lastCall.constructed
    /\ environ["OBSERVABILITY_PROVIDER"] = Val(<<" ","S","E","N","T","R","Y","\n">>)
    /\ Name(instances[lastCall.ret]) = "sentry"

\* C3: the first get_provider() after a reset_provider() constructs a fresh
\* instance (not one returned before) of the class the current configuration
\* selects, and later calls return that instance until the next reset.
C3_ResetYieldsFresh ==
    [][(lastCall'.op = "get_provider")
        => /\ resetPending
              => /\ lastCall'.constructed
                 /\ lastCall'.ret \notin retired
                 /\ lastCall'.ret \notin 1..Len(instances)
                 /\ lastCall'.ret \in 1..Len(instances')
                 /\ _provider_instance' = lastCall'.ret
                 /\ Name(instances'[lastCall'.ret])
                      = ExpectedName(environ["OBSERVABILITY_PROVIDER"])
           /\ (~resetPending /\ epochReturns # {})
              => /\ lastCall'.ret \in epochReturns
                 /\ ~lastCall'.constructed]_vars

\* C3 witness: after a reset and a changed configuration, get_provider()
\* returned a new instance of another class than the retired one.
C3_Witness ==
    /\ lastCall.op = "get_provider"
    /\ lastCall.constructed
    /\ \E old \in retired :
          /\ old # lastCall.ret
          /\ instances[old].cls # instances[lastCall.ret].cls

\* C4: with no reset, under any interleaving of get_provider() callers the
\* slot is written once, one instance is constructed, and all callers get it.
C4_WrittenOnce ==
    /\ slotWrites <= 1
    /\ Len(instances) <= 1
    /\ Cardinality(epochReturns) <= 1

----------------------------------------------------------------------------
(* Claims about the provider methods *)

SetTagCalls(calls) == {i \in 1..Len(calls) : calls[i].fn = "set_tag"}

\* C5: a NoopProvider is never enabled, is named "noop", and each of its
\* methods returns None (or, for the tracing helpers, the wrapped function's
\* own outcome), raises nothing of its own, calls no SDK and changes no state.
C5_NoopIsPure ==
    prov.cls = "NoopProvider" =>
        /\ IsEnabled(prov) = FALSE
        /\ Name(prov) = "noop"
        /\ prov = NoopProvider_init
        /\ lastOp.sdk = <<>>
        /\ ~lastOp.logged
        /\ lastOp.op \in {"__init__", "initialize", "record_error", "record_event",
                          "set_user_context", "add_tags"}
             => (lastOp.raised = "none" /\ lastOp.ret = PNone)
        /\ lastOp.op = "trace_decorator"
             => (lastOp.raised = "none" /\ wrapper.kind = "identity")
        /\ lastOp.op = "invoke"
             => (lastOp.raised = lastOp.args.exc /\ lastOp.ret = lastOp.args.ret)
        /\ lastOp.op = "trace_context"
             => (lastOp.raised = lastOp.args.exc /\ lastOp.ret = PNone)

\* C5 witness: record_error was called on a NoopProvider with tags that are
\* not a mapping, and returned None.
C5_Witness ==
    /\ prov.cls = "NoopProvider"
    /\ lastOp.op = "record_error"
    /\ lastOp.args.tags = PList(<<PStr("a:b")>>)
    /\ lastOp.ret = PNone

\* C6: on a provider whose is_enabled is False, trace_decorator(name)(f)
\* behaves like f: same return value, same exception, no SDK call and no span.
C6_DisabledDecoratorIsIdentity ==
    (Constructed /\ ~IsEnabled(prov)) =>
        /\ lastOp.op = "trace_decorator"
             => (lastOp.raised = "none" /\ wrapper.kind = "identity")
        /\ (lastOp.op = "invoke" /\ ~wrapper.enabledAtDecoration)
             => /\ lastOp.raised = lastOp.args.exc
                /\ lastOp.ret = lastOp.args.ret
                /\ lastOp.sdk = <<>>

\* C7: on a provider whose is_enabled is False, trace_context(name) yields
\* None, calls no SDK, and lets the block's own exception propagate unchanged.
C7_DisabledContextYieldsNone ==
    (Constructed /\ ~IsEnabled(prov) /\ lastOp.op = "trace_context") =>
        /\ lastOp.ret = PNone
        /\ lastOp.sdk = <<>>
        /\ lastOp.raised = lastOp.args.exc

\* C8 as stated: record_error never lets an exception reach the caller, and
\* every tag it sets has a string key and a string value.
C8_AllTagsCoerced ==
    lastOp.op = "record_error" =>
        /\ lastOp.raised = "none"
        /\ \A i \in SetTagCalls(lastOp.sdk) :
              lastOp.sdk[i].a.ty = "str" /\ lastOp.sdk[i].b.ty = "str"

\* First elements of the 2-tuple keys of a tags mapping
TupleKeyHeads(tags) ==
    IF tags.ty # "dict" THEN {}
    ELSE { tags.v[i][1].v[1] :
             i \in {j \in 1..Len(tags.v) :
                      tags.v[j][1].ty = "tuple" /\ Len(tags.v[j][1].v) = 2} }

\* C8 as amended: record_error never lets an exception reach the caller; tag
\* values are always stringified and tag keys too, except that a 2-tuple key
\* (a, b) sets tag a as it is; truthy tags that are no mapping and a failing
\* SDK call are caught and logged.
C8_RecordErrorNeverRaises ==
    lastOp.op = "record_error" =>
        /\ lastOp.raised = "none"
        /\ \A i \in SetTagCalls(lastOp.sdk) :
              /\ lastOp.sdk[i].b.ty = "str"
              /\ \/ lastOp.sdk[i].a.ty = "str"
                 \/ lastOp.sdk[i].a \in TupleKeyHeads(lastOp.args.tags)
        /\ (IsSentry /\ prov._enabled /\ lastOp.fail > 0) => lastOp.logged
        /\ (IsSentry /\ prov._enabled /\ Truthy(lastOp.args.tags)
              /\ lastOp.args.tags.ty # "dict") => lastOp.logged

\* C8 witness: the tags {1: 2} were sent as ("1", "2") and the failure of a
\* later SDK call was caught and logged.
C8_Witness ==
    /\ lastOp.op = "record_error"
    /\ lastOp.args.tags = PDict(<< <<PInt(1), PInt(2)>> >>)
    /\ \E i \in SetTagCalls(lastOp.sdk) :
          lastOp.sdk[i].a = PStr("1") /\ lastOp.sdk[i].b = PStr("2")
    /\ lastOp.fail = Len(lastOp.sdk)
    /\ lastOp.sdk[lastOp.fail].fn = "capture_exception"
    /\ lastOp.logged
    /\ lastOp.raised = "none"

\* C9: record_event, add_tags and set_user_context never let an exception
\* reach the caller, whatever the arguments and whichever SDK call fails;
\* the failure is logged.
C9_OthersNeverRaise ==
    lastOp.op \in {"record_event", "add_tags", "set_user_context"} =>
        /\ lastOp.raised = "none"
        /\ (IsSentry /\ prov._enabled /\ lastOp.fail > 0) => lastOp.logged

\* C9 witness: add_tags(None) on a configured SentryProvider returned after
\* logging the error.
C9_Witness ==
    /\ IsSentry
    /\ prov._enabled
    /\ lastOp.op = "add_tags"
    /\ lastOp.args.tags = PNone
    /\ lastOp.logged
    /\ lastOp.raised = "none"

\* C10: on a successfully initialized SentryProvider every further
\* initialize() leaves the object (and so is_enabled) unchanged and makes no
\* SDK call; sentry_sdk.init succeeds at most once per instance.
C10_InitializeIdempotent ==
    [][/\ sdkInits' <= 1
       /\ (IsSentry /\ prov._initialized /\ lastOp' # lastOp /\ lastOp'.op = "initialize")
            => /\ prov' = prov
               /\ IsEnabled(prov') = IsEnabled(prov)
               /\ lastOp'.sdk = <<>>
               /\ lastOp'.raised = "none"
               /\ sdkInits' = sdkInits]_vars

\* C10 witness: initialize() was called on an initialized instance and did
\* nothing.
C10_Witness ==
    /\ IsSentry
    /\ prov._initialized
    /\ IsEnabled(prov)
    /\ sdkInits = 1
    /\ lastOp.op = "initialize"
    /\ lastOp.sdk = <<>>

----------------------------------------------------------------------------
(* Claims about SentryProvider.initialize and is_enabled *)

\* C11: a failure inside SentryProvider.initialize() (the import or the SDK
\* setup raising) never reaches the caller, and once an initialize() of an
\* instance has failed the instance is not enabled in any later state,
\* whatever is called on it afterwards.
C11_InitFailureDegrades ==
    IsSentry =>
        /\ (lastOp.op = "initialize" => lastOp.raised = "none")
        /\ (hist.initFailed => ~IsEnabled(prov))

\* C11 witness: a further initialize() on an instance whose earlier
\* initialize() failed; it neither fails again nor enables the instance.
C11_Witness ==
    /\ IsSentry
    /\ hist.initFailed
    /\ lastOp.op = "initialize"
    /\ ~lastOp.logged
    /\ lastOp.raised = "none"
    /\ ~IsEnabled(prov)

\* A value of SENTRY_DSN that is set and holds a non-whitespace character
NonBlankDsn(v) == v.set /\ \E i \in 1..Len(v.val) : v.val[i] \notin Whitespace

\* C12: a SentryProvider is enabled only if SENTRY_DSN was non-blank when it
\* was constructed and one of its initialize() calls completed the SDK setup
\* without error; so it is not enabled between construction and the first
\* successful initialize().
C12_EnabledOnlyIfConfiguredAndInitialized ==
    (IsSentry /\ IsEnabled(prov)) => (NonBlankDsn(hist.dsn) /\ hist.initOk)

\* C12 witness: an enabled instance, and SENTRY_DSN has since been removed
\* from the environment.
C12_Witness ==
    /\ IsSentry
    /\ IsEnabled(prov)
    /\ hist.initOk
    /\ NonBlankDsn(hist.dsn)
    /\ environ["SENTRY_DSN"] = Unset

\* C13: on a SentryProvider constructed while SENTRY_DSN was absent, empty or
\* blank, no initialize() raises, imports the SDK or configures it, and the
\* instance is never enabled.
C13_NoDsnSkipsSetup ==
    (IsSentry /\ ~NonBlankDsn(hist.dsn)) =>
        /\ ~IsEnabled(prov)
        /\ sdkInits = 0
        /\ ~hist.initOk
        /\ ~hist.initFailed
        /\ (lastOp.op = "initialize" =>
                lastOp.raised = "none" /\ lastOp.sdk = <<>> /\ ~lastOp.logged)

\* C13 witness: initialize() called on an instance constructed under a
\* whitespace-only SENTRY_DSN, after a DSN was put into the environment.
C13_Witness ==
    /\ IsSentry
    /\ hist.dsn = Val(<<" ", "\t">>)
    /\ NonBlankDsn(environ["SENTRY_DSN"])
    /\ lastOp.op = "initialize"
    /\ ~IsEnabled(prov)

----------------------------------------------------------------------------
(* Claims about the recording methods *)

\* C14: whenever is_enabled is False (for SentryProvider also while a DSN is
\* configured and initialize() has not completed), record_error,
\* record_event, set_user_context and add_tags do nothing: no vendor SDK call
\* is made and nothing is raised.
C14_DisabledMethodsAreNoOps ==
    (/\ Constructed
     /\ ~IsEnabled(prov)
     /\ lastOp.op \in {"record_error", "record_event", "set_user_context", "add_tags"})
        => /\ lastOp.sdk = <<>>
           /\ lastOp.raised = "none"

\* The breadcrumb level an alert type stands for
ExpectedLevel(alert_type) ==
    CASE alert_type = PStr("warning") -> "warning"
      [] alert_type = PStr("error") -> "error"
      [] OTHER -> "info"

\* Positions of the calls of SDK function fn in a sequence of SDK calls
CallsOf(calls, fn) == {i \in 1..Len(calls) : calls[i].fn = fn}

\* C16: on an enabled SentryProvider a record_event call with a string
\* alert type (and no SDK call failing) adds exactly one breadcrumb, of level
\* warning for "warning", error for "error" and info for anything else, and
\* captures one standalone message if alert_type is "error", none otherwise;
\* it makes no other SDK call.
C16_EventBreadcrumbAndMessage ==
    (/\ IsSentry
     /\ IsEnabled(prov)
     /\ lastOp.op = "record_event"
     /\ lastOp.fail = 0
     /\ lastOp.args.alert_type.ty = "str")
        => LET crumbs == CallsOf(lastOp.sdk, "add_breadcrumb")
               messages == CallsOf(lastOp.sdk, "capture_message")
           IN  /\ Cardinality(crumbs) = 1
               /\ \A i \in crumbs :
                     lastOp.sdk[i].a = PStr(ExpectedLevel(lastOp.args.alert_type))
               /\ Cardinality(messages) =
                     (IF lastOp.args.alert_type = PStr("error") THEN 1 ELSE 0)
               /\ \A i \in messages : \A j \in crumbs : j < i
               /\ Len(lastOp.sdk) = Cardinality(crumbs) + Cardinality(messages)
               /\ lastOp.raised = "none"
               /\ ~lastOp.logged

\* C16 witness: an error event on an enabled instance: a breadcrumb and a
\* message.
C16_Witness ==
    /\ IsSentry
    /\ IsEnabled(prov)
    /\ lastOp.op = "record_event"
    /\ lastOp.fail = 0
    /\ lastOp.args.alert_type = PStr("error")
    /\ Len(lastOp.sdk) = 2

----------------------------------------------------------------------------
(* Claims about tracing of asynchronous functions *)

\* C15: for a function decorated by an enabled Sentry provider, the span of
\* a call is open whenever the function body is running or suspended, and it
\* is closed only once the body has returned or raised.
C15_SpanCoversAsyncExecution ==
    (coro.traced /\ coro.enabled) =>
        /\ (coro.body \in {"running", "suspended"} => coro.span = "open")
        /\ (coro.span = "closed" => coro.body \in {"returned", "raised"})

----------------------------------------------------------------------------
(* Claims about the pre-send hook *)

\* The service name configured by the value of DD_SERVICE
ConfiguredService(v) == IF v.set THEN v.val ELSE s_fastapi_app

\* C17: the pre-send hook returns the event it was given, never None; in the
\* event returned tags.service is the configured service name (the tags
\* mapping is created if the event had none), every other tag and every
\* other field is as it was, and nothing else was added.
C17_HookTagsService ==
    hookCall.called =>
        LET before == hookCall.event
            oldTags == IF "tags" \in DOMAIN before THEN before["tags"] ELSE EmptyDict
        IN  /\ hookCall.ret.ty = "dict"
            /\ LET after == hookCall.ret.v
               IN  /\ DOMAIN after = DOMAIN before \cup {"tags"}
                   /\ \A f \in DOMAIN before \ {"tags"} : after[f] = before[f]
                   /\ DOMAIN after["tags"] = DOMAIN oldTags \cup {"service"}
                   /\ after["tags"]["service"] = ConfiguredService(hookCall.env)
                   /\ \A t \in DOMAIN oldTags \ {"service"} :
                         after["tags"][t] = oldTags[t]

\* C17 witness: an event that already carries tags, another service tag
\* among them, went through the hook while DD_SERVICE was set.
C17_Witness ==
    /\ hookCall.called
    /\ hookCall.env = Val(s_svc)
    /\ "tags" \in DOMAIN hookCall.event
    /\ DOMAIN hookCall.event["tags"] = {"service", "env"}
    /\ "message" \in DOMAIN hookCall.event
    /\ hookCall.ret.v["tags"]["service"] = s_svc

----------------------------------------------------------------------------
(* Claims about posting events to Datadog *)

\* Whether the handler reported a failure: an exception or a logged error
PostFailed(o) == o.raised # "none" \/ o.logged

\* C18: when the Datadog events endpoint answers a post with a status
\* outside 200..299 the handler reports a failure (raises, or logs an error)
\* and does not return a result; when it answers with a status in 200..299
\* (and a JSON body) the handler reports no failure.
C18_NonSuccessStatusIsFailure ==
    (ddPost.called /\ ddPost.answer.kind = "response") =>
        /\ (ddPost.answer.status \notin 200..299 =>
                PostFailed(ddPost.outcome) /\ ddPost.outcome.returned = "none")
        /\ ((ddPost.answer.status \in 200..299 /\ ddPost.answer.json_ok) =>
                ~PostFailed(ddPost.outcome))

\* C23: when the Datadog events endpoint answers with a status s other than
\* the success status (202 for post_datadog_event, 200 for
\* get_datadog_events), the handler raises an HTTPException whose status
\* code is s; status 500 is used only for transport errors and unexpected
\* exceptions (or when s itself is 500).
C23_UpstreamStatusIsPropagated ==
    /\ (ddPost.called /\ ddPost.answer.kind = "response"
            /\ ddPost.answer.status # 202) =>
           /\ ddPost.outcome.raised = "HTTPException"
           /\ ddPost.outcome.status_code = ddPost.answer.status
    /\ (ddPost.events.called /\ ddPost.events.answer.kind = "response"
            /\ ddPost.events.answer.status # 200) =>
           /\ ddPost.events.outcome.raised = "HTTPException"
           /\ ddPost.events.outcome.status_code = ddPost.events.answer.status

----------------------------------------------------------------------------
(* Claims about add_photo *)

\* C19: once add_photo has stored the image metadata, no exception leaves
\* the handler, whatever the telemetry calls of the detection checks do, and
\* the response it returns holds the message and the database result and is
\* not an error response.
C19_TelemetryNeverFailsUpload ==
    (photo.called /\ photo.stored) =>
        /\ photo.raised = "none"
        /\ (photo.pc = "done" =>
                /\ {"message", "database_result"} \subseteq photo.response
                /\ "error" \notin photo.response)

\* C19 witness: the handler has returned its success response although a
\* telemetry call failed after the metadata was stored and the bug check
\* did not complete.
C19_Witness ==
    /\ photo.called
    /\ photo.stored
    /\ photo.pc = "done"
    /\ photo.telemetryFailed
    /\ "bug" \notin photo.issues
    /\ photo.raised = "none"
    /\ {"message", "database_result"} \subseteq photo.response

----------------------------------------------------------------------------
(* Claims about the structured-logging helpers *)

\* C20: no helper of the structured-logging module raises, for any
\* arguments and in any provider state, also not
\* log_youtube_batch_processing with urls_count = 0 on an enabled Sentry
\* provider.
C20_LoggingHelpersAreSilent ==
    logCall.called => logCall.raised = "none"

----------------------------------------------------------------------------
(* Claims about GET /health *)

\* C21: whatever provider was resolved at startup, and whatever state it is
\* in, GET /health answers status "healthy", and the provider name and the
\* enabled flag it reports are the name and is_enabled of the startup
\* instance, also after the singleton slot was reset and filled again.
C21_HealthReportsStartupProvider ==
    health.asked =>
        /\ health.response.status = "healthy"
        /\ health.response.observability_provider = Name(health.provider)
        /\ health.response.observability_enabled = ProviderIsEnabled(health.provider)
        /\ (health.provider.cls = "SentryProvider" =>
                health.response.observability_enabled =
                    (health.provider._enabled /\ health.provider._initialized))
        /\ (health.provider.cls = "NoopProvider" => ~health.response.observability_enabled)

\* C21 witness: /health answered for a Sentry provider whose initialize()
\* failed at startup, while the singleton slot now holds another class.
C21_Witness ==
    /\ health.asked
    /\ health.provider.cls = "SentryProvider"
    /\ ~health.provider._enabled
    /\ NonBlankDsn(environ["SENTRY_DSN"])
    /\ health.singleton.cls = "NoopProvider"
    /\ health.response.status = "healthy"
    /\ health.response.observability_provider = "sentry"

----------------------------------------------------------------------------
(* Claims about _dispatch_detection_event *)

\* Number of calls of fn in a sequence of call names
Count(calls, fn) == Cardinality({i \in 1..Len(calls) : calls[i] = fn})

\* C22: _dispatch_detection_event posts to Datadog or sends email only when
\* the provider's name is "datadog"; for any other provider it sends no
\* email, and it returns (False, name) with no record_event call when
\* is_enabled is False, or calls record_event exactly once, returning
\* (True, name), when is_enabled is True.
C22_DispatchRoutesByName ==
    dispatch.called =>
        LET n == dispatch.provider_name
            viaDatadog == \E i \in 1..Len(dispatch.calls) :
                             dispatch.calls[i] \in {"post_datadog_event", "app_event",
                                                    "send_email_notification"}
        IN  /\ viaDatadog => n = "datadog"
            /\ n # "datadog" =>
                  /\ Count(dispatch.calls, "send_email_notification") = 0
                  /\ ~dispatch.is_enabled =>
                        /\ dispatch.calls = <<>>
                        /\ dispatch.exc = "none"
                        /\ dispatch.ret = <<FALSE, n>>
                  /\ dispatch.is_enabled =>
                        /\ dispatch.calls = <<"record_event">>
                        /\ (dispatch.exc = "none" => dispatch.ret = <<TRUE, n>>)

\* C22 witness: a bug detection dispatched under an enabled Sentry provider.
C22_Witness ==
    /\ dispatch.called
    /\ dispatch.provider_name = "sentry"
    /\ dispatch.is_enabled
    /\ dispatch.detection_type = "bug"
    /\ dispatch.calls = <<"record_event">>
    /\ dispatch.ret = <<TRUE, "sentry">>

----------------------------------------------------------------------------
(* Claims about the YouTube summarization *)

\* Whether a result of process_youtube_video carries a non-empty error
HasError(result) == "error" \in DOMAIN result /\ Truthy(result["error"])

\* The keys every successful response of the handler holds
SummaryKeys == {"video_id", "transcript", "language", "summary"}

\* C24: summarize_youtube_video raises HTTPException(400) exactly when the
\* result of process_youtube_video carries a non-empty error; it raises
\* HTTPException(500) only for an unexpected exception (never for a result
\* with a non-empty error); otherwise it returns a dict holding video_id,
\* transcript, language and summary of the result.
C24_SummarizeStatusCodes ==
    (youtube.called /\ youtube.pc = "done") =>
        LET r == youtube.result
            o == youtube.outcome
        IN  /\ (o.raised = "HTTPException" /\ o.status_code = 400) <=> HasError(r)
            /\ o.raised = "HTTPException" => o.status_code \in {400, 500}
            /\ o.status_code = 500 => (~HasError(r) /\ ~(SummaryKeys \subseteq DOMAIN r))
            /\ o.raised = "none" =>
                  /\ SummaryKeys \subseteq DOMAIN o.response
                  /\ \A k \in SummaryKeys : o.response[k] = r[k]

\* A summarization failure has been answered with 400
C24_Witness ==
    /\ youtube.called
    /\ youtube.pc = "done"
    /\ "error" \in DOMAIN youtube.summary_result
    /\ youtube.outcome.raised = "HTTPException"
    /\ youtube.outcome.status_code = 400

\* The steps of process_youtube_video, in their order
StepOrder ==
    <<"get_video_id", "get_youtube_video_details_pytube", "get_youtube_transcript",
      "generate_video_summary_async", "add_video_summary_to_notion">>

\* The position of a step in StepOrder
StepIndex(step) == CHOOSE i \in 1..Len(StepOrder) : StepOrder[i] = step

\* Whether a step has been made
Called(step) == \E i \in 1..Len(youtube.calls) : youtube.calls[i] = step

\* C25: process_youtube_video makes its steps in the order video-id
\* extraction, metadata fetch (only when save_to_notion), transcript fetch,
\* summarization, Notion save, and always returns a dict; after an invalid
\* URL or a transcript error it returns an error dict without calling the
\* language model; the Notion save is attempted if and only if save_to_notion
\* is true and a non-empty summary was produced; after a Notion failure the
\* response holds notion_error and still holds the summary fields.
C25_ProcessStepsAndNotion ==
    youtube.called =>
        /\ \A i, j \in 1..Len(youtube.calls) :
              i < j => StepIndex(youtube.calls[i]) < StepIndex(youtube.calls[j])
        /\ Called("get_youtube_video_details_pytube") => youtube.save_to_notion
        /\ youtube.pc \in {"handler", "done"} =>
              /\ youtube.result # EmptyDict
              /\ (NotVideoId(youtube.video_id)
                    \/ "error" \in DOMAIN youtube.transcript_result) =>
                    /\ DOMAIN youtube.result = {"error"}
                    /\ ~Called("generate_video_summary_async")
              /\ Called("add_video_summary_to_notion") <=>
                    /\ youtube.save_to_notion
                    /\ "summary" \in DOMAIN youtube.summary_result
                    /\ Truthy(youtube.summary_result["summary"])
              /\ (Called("add_video_summary_to_notion") /\ HasError(youtube.notion_result)) =>
                    /\ "notion_error" \in DOMAIN youtube.result
                    /\ SummaryKeys \subseteq DOMAIN youtube.result
                    /\ youtube.result["summary"] = youtube.summary_result["summary"]

\* A Notion save has failed and the summary has been returned
C25_Witness ==
    /\ youtube.called
    /\ youtube.pc = "done"
    /\ Called("add_video_summary_to_notion")
    /\ "notion_error" \in DOMAIN youtube.result
    /\ youtube.outcome.raised = "none"
    /\ youtube.outcome.response["summary"] = PStr("s")

----------------------------------------------------------------------------
(* Claims about CustomError *)

\* C26: constructing a CustomError never raises; record_error is called
\* exactly once when get_provider() returns a provider whose is_enabled is
\* True and not at all when it is False; whether or not get_provider() or
\* record_error fails, the object holds its message, its error_type
\* ("application_error" when none is given) and its tags.
C26_CustomErrorAlwaysConstructs ==
    customError.called =>
        LET r == customError.result
            f == customError.faults
        IN  /\ r.exc = "none"
            /\ (f.get_provider_ok /\ f.is_enabled) => Len(r.calls) = 1
            /\ (f.get_provider_ok /\ ~f.is_enabled) => Len(r.calls) = 0
            /\ ~f.get_provider_ok => Len(r.calls) = 0
            /\ r.self.message = PStr("m")
            /\ r.self.error_type = IF customError.error_type \in {PNone, PStr("")}
                                   THEN PStr("application_error")
                                   ELSE customError.error_type
            /\ r.self.tags = IF customError.tags = PNone THEN PList(<<>>)
                             ELSE customError.tags

\* A CustomError has been constructed although record_error failed
C26_Witness ==
    /\ customError.called
    /\ customError.faults.get_provider_ok
    /\ customError.faults.is_enabled
    /\ ~customError.faults.record_error_ok
    /\ customError.error_type = PNone
    /\ Len(customError.result.calls) = 1
    /\ customError.result.exc = "none"

----------------------------------------------------------------------------
(* Claims about the order of storage and checks in add_photo *)

\* The last of the checks that triggered, in the order moderation, error
\* text, bug
LastIssue(issues) ==
    IF "bug" \in issues THEN "bug"
    ELSE IF "error_text" \in issues THEN "error_text"
    ELSE "moderation"

C28_SuccessOnlyWhenStored ==
    (photo.called /\ photo.pc = "done" /\ photo.backend \in {"mongo", "postgres", "sqlserver"}
        /\ photo.type \notin {"s3_upload_error", "rekognition_error"}) =>
        /\ "message" \in photo.response => photo.stored
        /\ ~photo.stored =>
              /\ photo.type = StorageErrorType(photo.backend)
              /\ "error" \in photo.response

----------------------------------------------------------------------------
(* Claims about delete_image *)

\* C29: when the lookup of the backend returns an error dict (image not
\* found, or backend unavailable), delete_image returns an error response,
\* attempts no S3 deletion and no exception leaves the handler.
C29_LookupErrorIsAnErrorResponse ==
    (deletion.called /\ deletion.backend \in {"mongo", "postgres", "sqlserver"}
        /\ (deletion.backend = "sqlserver" => deletion.id_numeric)
        /\ deletion.lookup = "error") =>
        /\ deletion.outcome.raised = "none"
        /\ "error" \in deletion.outcome.response
        /\ ~deletion.outcome.s3_attempted

----------------------------------------------------------------------------
(* Claims about the shared SQL Server connection *)

\* Every call that returned successfully has its own statement committed
ReturnedIsCommitted == \A s \in sql.returned : s \in sql.committed

\* No statement of a call that failed is committed
FailedIsNotCommitted == \A s \in sql.failed : s \notin sql.committed

\* At most one connection is open
OneLiveConnection == Cardinality(sql.live) <= 1

\* C30: with concurrent execute_non_query_async calls on the shared
\* connection, every call that returned successfully has its own statement
\* committed (no other call's rollback discards it), no statement of a call
\* that failed is committed (no other call's commit commits it), and
\* get_connection never has more than one connection open.
C30_CallsAreIsolated ==
    /\ ReturnedIsCommitted
    /\ FailedIsNotCommitted
    /\ OneLiveConnection

============================================================================
